---- MODULE Spec2Model ----
(***************************************************************************)
(* The segment editor of static/js/editor.js: HistoryManager (snapshot     *)
(* undo/redo with a re-entrancy lock) and HTREditor (drawing session,      *)
(* modes, selection, image loading, autosave timer), over a fabric.js      *)
(* canvas.  The canvas is a sequence of objects; canvas.add / canvas.remove *)
(* fire object:added / object:removed synchronously, and                   *)
(* fabric.util.enlivenObjects hands its result to a callback that runs as  *)
(* a later step (ApplyDone), possibly the very next one.                   *)
(***************************************************************************)
EXTENDS Integers, Sequences, FiniteSets, TLC

(* ---------------------------- constants ------------------------------ *)

maxHistory == 50
snapDist == 15

(* ------------------------------ bounds ------------------------------- *)

\* Spec, DrawSpec, LiveSpec: the number of events handled
MaxSteps == 9
MaxDrawSteps == 7
MaxLiveSteps == 5
\* loads or requests of one kind in flight
MaxPending == 1
\* SeqSpec: the number of regions drawn beyond maxHistory
MaxExtra == 2

(* ------------------------------ values ------------------------------- *)

Origin == <<0, 0>>
HistPoints == {Origin}
DrawPointSet == {Origin, <<10, 0>>, <<10, 10>>, <<1, 1>>, <<15, 0>>}
Zoom1 == <<1, 1>>
ZoomSet == {Zoom1, <<1, 2>>}
WheelSet == {<<2, 1>>, <<25, 1>>, <<1, 200>>}
Triangle == <<Origin, <<10, 0>>, <<10, 10>> >>
Stored == <<Origin, <<15, 0>>, <<10, 10>> >>
Segment == <<Origin, <<10, 0>> >>
\* imageList: the file names the editor navigates between
Files == {"a", "b"}
NoLoads == [f \in Files |-> 0]
Total(b) == b["a"] + b["b"]

Min(S) == CHOOSE x \in S : \A y \in S : x <= y
Front(s) == SubSeq(s, 1, Len(s) - 1)
Last(s) == s[Len(s)]
RemoveAt(s, i) == SubSeq(s, 1, i - 1) \o SubSeq(s, i + 1, Len(s))

(* --------------------------- canvas objects -------------------------- *)

\* an object's own transform (left, top) as the distance it was dragged from
\* where it was created, counted in half pixels
NoOffset == <<0, 0>>

\* new fabric.Polygon(points) after _configurePolygon: selectable, evented
Polygon(points) ==
    [type |-> "polygon", class |-> "", points |-> points,
     offset |-> NoOffset,
     selectable |-> TRUE, evented |-> TRUE, isActiveLine |-> FALSE]

\* the vertex marker of _renderDrawHelpers
Circle(p) ==
    [type |-> "circle", class |-> "temp", points |-> <<p>>,
     offset |-> NoOffset,
     selectable |-> FALSE, evented |-> FALSE, isActiveLine |-> FALSE]

\* an edge of _renderDrawHelpers, or (tracked) the rubber-band line
Line(p1, p2, tracked) ==
    [type |-> "line", class |-> "temp", points |-> <<p1, p2>>,
     offset |-> NoOffset,
     selectable |-> FALSE, evented |-> FALSE, isActiveLine |-> tracked]

\* o.toObject(['class', 'selectable', 'evented']) through JSON.stringify:
\* the data of the object, without its identity
ToObject(o) ==
    [type |-> o.type, class |-> o.class, points |-> o.points,
     offset |-> o.offset,
     selectable |-> o.selectable, evented |-> o.evented]

\* what fabric.util.enlivenObjects builds from one parsed entry: a new object
Enliven(d) ==
    [type |-> d.type, class |-> d.class, points |-> d.points,
     offset |-> d.offset,
     selectable |-> d.selectable, evented |-> d.evented, isActiveLine |-> FALSE]

\* canvas.getObjects().map(o => o.toObject([...])) then JSON.stringify
Snapshot(objs) == [i \in 1..Len(objs) |-> ToObject(objs[i])]

IsRegion(o) == o.type = "polygon" /\ o.class = ""
Regions(objs) == SelectSeq(objs, IsRegion)
IsTemp(o) == o.class = "temp"
Temps(objs) == SelectSeq(objs, IsTemp)

(* ------------------------------ state -------------------------------- *)

VARIABLES
    canvas,          \* canvas.getObjects()
    undoStack,       \* HistoryManager.undoStack
    redoStack,       \* HistoryManager.redoStack
    locked,          \* HistoryManager.locked
    pending,         \* the parsed snapshot enlivenObjects is working on
    currentMode,     \* HTREditor.currentMode: "null", "edit", "draw"
    drawPoints,      \* HTREditor.drawPoints
    activeLine,      \* HTREditor.activeLine is set
    active,          \* index of canvas.getActiveObject(), 0 when none
    editPointsMode,  \* HTREditor.editPointsMode
    savedState,      \* HTREditor.savedState
    autoSaveTimer,   \* a timer started by triggerAutoSave has not fired yet
    zoom,            \* canvas.getZoom(), a fraction <<num, den>>
    filename,        \* HTREditor.filename
    timers,          \* timers started by triggerAutoSave, not cleared or fired
    writes,          \* API.saveAnnotation requests in flight
    imgPending,      \* image loads in flight, per file asked for
    annPending,      \* API.loadAnnotation calls in flight, per file
    detPending,      \* /api/detect_lines requests in flight, per file
    baseZoom,        \* the zoom in effect when history.reset() last ran
    fitZoom,         \* the scale the last image-load callback computed
    te,              \* the TextEditor of the text page, as one record
    owed,            \* change notifications owed by restorations in progress
    baselined,       \* an image load has called history.reset()
    lockInfo,        \* what undo()/redo() found when it took the lock
    steps            \* events handled so far

vars == <<canvas, undoStack, redoStack, locked, pending, currentMode,
          drawPoints, activeLine, active, editPointsMode, savedState,
          autoSaveTimer, zoom, filename, timers, writes, imgPending,
          annPending, detPending, baseZoom, fitZoom, te, owed, baselined,
          lockInfo, steps>>

NoSaved == [index |-> -2, isEditPoints |-> FALSE]
NoLock == [kind |-> "none", undoLen |-> 0, redoLen |-> 0, reset |-> FALSE]

\* the editor as one value, so that handlers compose as functions
Ed ==
    [canvas |-> canvas, undoStack |-> undoStack, redoStack |-> redoStack,
     locked |-> locked, pending |-> pending, currentMode |-> currentMode,
     drawPoints |-> drawPoints, activeLine |-> activeLine, active |-> active,
     editPointsMode |-> editPointsMode, savedState |-> savedState,
     autoSaveTimer |-> autoSaveTimer, zoom |-> zoom, owed |-> owed,
     baselined |-> baselined, lockInfo |-> lockInfo, filename |-> filename,
     timers |-> timers, writes |-> writes, baseZoom |-> baseZoom,
     fitZoom |-> fitZoom]

Commit(e) ==
    /\ canvas' = e.canvas
    /\ undoStack' = e.undoStack
    /\ redoStack' = e.redoStack
    /\ locked' = e.locked
    /\ pending' = e.pending
    /\ currentMode' = e.currentMode
    /\ drawPoints' = e.drawPoints
    /\ activeLine' = e.activeLine
    /\ active' = e.active
    /\ editPointsMode' = e.editPointsMode
    /\ savedState' = e.savedState
    /\ autoSaveTimer' = e.autoSaveTimer
    /\ zoom' = e.zoom
    /\ owed' = e.owed
    /\ baselined' = e.baselined
    /\ lockInfo' = e.lockInfo
    /\ filename' = e.filename
    /\ timers' = e.timers
    /\ writes' = e.writes
    /\ baseZoom' = e.baseZoom
    /\ fitZoom' = e.fitZoom
    /\ te' = te

(* -------------------------- HistoryManager --------------------------- *)

\* save() without its lock test
HistorySaveUnlocked(e) ==
    LET u == IF Len(e.undoStack) >= maxHistory
             THEN Tail(e.undoStack) ELSE e.undoStack
    IN [e EXCEPT !.redoStack = <<>>,
                 !.undoStack = Append(u, Snapshot(e.canvas))]

\* save() making room by dropping the newest entry instead of the oldest
HistorySaveEvictsNewest(e) ==
    IF e.locked THEN e
    ELSE LET u == IF Len(e.undoStack) >= maxHistory
                  THEN Front(e.undoStack) ELSE e.undoStack
         IN [e EXCEPT !.redoStack = <<>>,
                      !.undoStack = Append(u, Snapshot(e.canvas))]

\* save() leaving the redo stack as it is
HistorySaveKeepsRedo(e) ==
    IF e.locked THEN e
    ELSE LET u == IF Len(e.undoStack) >= maxHistory
                  THEN Tail(e.undoStack) ELSE e.undoStack
         IN [e EXCEPT !.undoStack = Append(u, Snapshot(e.canvas))]

\* save() evicting one entry too late
HistorySaveLateEvict(e) ==
    IF e.locked THEN e
    ELSE LET u == IF Len(e.undoStack) > maxHistory
                  THEN Tail(e.undoStack) ELSE e.undoStack
         IN [e EXCEPT !.redoStack = <<>>,
                      !.undoStack = Append(u, Snapshot(e.canvas))]

HistorySave(e) ==
    IF e.locked THEN e
    ELSE LET u == IF Len(e.undoStack) >= maxHistory
                  THEN Tail(e.undoStack) ELSE e.undoStack
         IN [e EXCEPT !.redoStack = <<>>,
                      !.undoStack = Append(u, Snapshot(e.canvas))]

(* ------------------------- HTREditor helpers ------------------------- *)

\* triggerAutoSave() without clearTimeout
TriggerAutoSaveNoClear(e) ==
    [e EXCEPT !.timers = @ + 1, !.autoSaveTimer = TRUE]

\* triggerAutoSave(): clearTimeout(this.autoSaveTimer), then setTimeout
TriggerAutoSave(e) ==
    [e EXCEPT !.timers = (IF e.autoSaveTimer THEN @ - 1 ELSE @) + 1,
              !.autoSaveTimer = TRUE]

UpdateSelectionUI(e) ==
    IF e.currentMode = "edit" /\ e.active # 0 THEN e
    ELSE [e EXCEPT !.editPointsMode = FALSE]

\* the selection:created / selection:updated / selection:cleared handlers
OnSelectionChange(e) == UpdateSelectionUI([e EXCEPT !.editPointsMode = FALSE])

\* onObjectChanged without triggerAutoSave()
OnObjectChangedNoAutoSave(e, o) ==
    IF o.class = "" /\ o.type = "polygon" THEN HistorySave(e) ELSE e

\* the object:added / object:removed / object:modified handler
OnObjectChanged(e, o) ==
    IF o.class = "" /\ o.type = "polygon"
    THEN TriggerAutoSave(HistorySave(e))
    ELSE e

\* canvas.add(o): appends, then fires object:added
CanvasAdd(e, o) == OnObjectChanged([e EXCEPT !.canvas = Append(@, o)], o)

\* canvas.discardActiveObject(): fires selection:cleared when there was one
DiscardActiveObject(e) ==
    IF e.active = 0 THEN e ELSE OnSelectionChange([e EXCEPT !.active = 0])

\* canvas.setActiveObject(canvas.getObjects()[i])
SetActiveObject(e, i) ==
    IF e.active = i THEN e ELSE OnSelectionChange([e EXCEPT !.active = i])

\* canvas.remove(o) for the object at index i: splices it out, clears the
\* selection if it was the active object, then fires object:removed
CanvasRemoveAt(e, i) ==
    LET o == e.canvas[i]
        e1 == [e EXCEPT !.canvas = RemoveAt(@, i),
                        !.active = IF @ > i THEN @ - 1 ELSE @]
        e2 == IF e.active = i
              THEN OnSelectionChange([e1 EXCEPT !.active = 0]) ELSE e1
    IN OnObjectChanged(e2, o)

Matches(o, kind) ==
    CASE kind = "polygon" -> o.type = "polygon"
      [] kind = "region" -> IsRegion(o)
      [] kind = "temp" -> IsTemp(o)
      [] OTHER -> TRUE

\* canvas.remove(o) for each index of a list in turn, each firing its event;
\* an index is the object's place when its turn comes. The first half is
\* done (the value e1) before the second starts.
RECURSIVE RemoveEach(_, _)
RemoveEach(e, is) ==
    IF Len(is) = 0 THEN e
    ELSE IF Len(is) = 1 THEN CanvasRemoveAt(e, is[1])
    ELSE LET h == Len(is) \div 2
         IN CHOOSE r \in {RemoveEach(e1, SubSeq(is, h + 1, Len(is))) :
                              e1 \in {RemoveEach(e, SubSeq(is, 1, h))}} : TRUE

\* canvas.remove(...) of every object of a kind, one at a time: from the
\* front (each removal shifts the later ones down), but abortDrawing walks
\* the temps from the end
RemoveKind(e, kind) ==
    LET n == Len(e.canvas)
        idx == SelectSeq([i \in 1..n |-> i],
                         LAMBDA i : Matches(e.canvas[i], kind))
        m == Len(idx)
    IN RemoveEach(e, [k \in 1..m |->
                         IF kind = "temp" THEN idx[m + 1 - k]
                         ELSE idx[k] - (k - 1)])

\* abortDrawing() removing the helpers, the collected points kept
AbortDrawingKeepsPoints(e) ==
    [RemoveKind(e, "temp") EXCEPT !.activeLine = FALSE]

AbortDrawing(e) ==
    [RemoveKind(e, "temp") EXCEPT !.activeLine = FALSE, !.drawPoints = <<>>]

SetAll(objs, flag) ==
    [i \in 1..Len(objs) |-> [objs[i] EXCEPT !.selectable = flag, !.evented = flag]]

\* setMode() aborting the drawing on the way into draw mode too
SetModeDrawAborts(e, mode) ==
    LET e1 == UpdateSelectionUI(
                  [e EXCEPT !.currentMode = mode, !.editPointsMode = FALSE])
    IN IF mode = "draw"
       THEN LET e2 == AbortDrawing(DiscardActiveObject(e1))
            IN [e2 EXCEPT !.canvas = SetAll(@, FALSE)]
       ELSE LET e2 == AbortDrawing(e1)
            IN [e2 EXCEPT !.canvas = SetAll(@, TRUE)]

SetMode(e, mode) ==
    LET e1 == UpdateSelectionUI(
                  [e EXCEPT !.currentMode = mode, !.editPointsMode = FALSE])
    IN IF mode = "draw"
       THEN LET e2 == DiscardActiveObject(e1)
            IN [e2 EXCEPT !.canvas = SetAll(@, FALSE)]
       ELSE LET e2 == AbortDrawing(e1)
            IN [e2 EXCEPT !.canvas = SetAll(@, TRUE)]

(* ----------------------- HistoryManager, cont. ----------------------- *)

\* _loadObjects up to the call of enlivenObjects
LoadObjects(e, snap) == [RemoveKind(e, "polygon") EXCEPT !.pending = snap]

\* undo() without its lock test
HistoryUndoUnlocked(e) ==
    IF Len(e.undoStack) <= 1 THEN e
    ELSE LET rest == Front(e.undoStack)
         IN LoadObjects(
                [e EXCEPT !.locked = TRUE,
                          !.undoStack = rest,
                          !.redoStack = Append(@, Last(e.undoStack)),
                          !.owed = @ + 1,
                          !.lockInfo = [kind |-> "undo",
                                        undoLen |-> Len(e.undoStack),
                                        redoLen |-> Len(e.redoStack),
                                        reset |-> FALSE]],
                Last(rest))

HistoryUndo(e) ==
    IF Len(e.undoStack) <= 1 \/ e.locked THEN e
    ELSE LET rest == Front(e.undoStack)
         IN LoadObjects(
                [e EXCEPT !.locked = TRUE,
                          !.undoStack = rest,
                          !.redoStack = Append(@, Last(e.undoStack)),
                          !.owed = @ + 1,
                          !.lockInfo = [kind |-> "undo",
                                        undoLen |-> Len(e.undoStack),
                                        redoLen |-> Len(e.redoStack),
                                        reset |-> FALSE]],
                Last(rest))

HistoryRedo(e) ==
    IF Len(e.redoStack) = 0 \/ e.locked THEN e
    ELSE LET next == Last(e.redoStack)
         IN LoadObjects(
                [e EXCEPT !.locked = TRUE,
                          !.redoStack = Front(@),
                          !.undoStack = Append(@, next),
                          !.owed = @ + 1,
                          !.lockInfo = [kind |-> "redo",
                                        undoLen |-> Len(e.undoStack),
                                        redoLen |-> Len(e.redoStack),
                                        reset |-> FALSE]],
                next)

HistoryReset(e) ==
    HistorySave([e EXCEPT !.undoStack = <<>>, !.redoStack = <<>>,
                          !.lockInfo = [@ EXCEPT !.reset = e.locked],
                          !.baseZoom = e.zoom])

\* canvas.add(o) for each object of a list in turn
RECURSIVE AddAll(_, _)
AddAll(e, objs) ==
    IF Len(objs) = 0 THEN e
    ELSE IF Len(objs) = 1 THEN CanvasAdd(e, objs[1])
    ELSE LET h == Len(objs) \div 2
         IN CHOOSE r \in {AddAll(e1, SubSeq(objs, h + 1, Len(objs))) :
                              e1 \in {AddAll(e, SubSeq(objs, 1, h))}} : TRUE

RestoreSelectionState(e) ==
    IF e.savedState.index < 0 THEN [e EXCEPT !.editPointsMode = FALSE]
    ELSE LET i == e.savedState.index + 1
             e1 == IF i <= Len(e.canvas)
                   THEN [SetActiveObject(e, i) EXCEPT
                            !.editPointsMode = e.savedState.isEditPoints
                                               /\ e.canvas[i].type = "polygon"]
                   ELSE e
         IN [e1 EXCEPT !.savedState = NoSaved]

\* the callback the HTREditor constructor hands to HistoryManager
OnHistoryChange(e) ==
    [TriggerAutoSave(UpdateSelectionUI(RestoreSelectionState(e)))
        EXCEPT !.owed = @ - 1]

\* the callback returning early, the lock still set, when nothing was enlivened
LoadObjectsDoneSkipsEmpty(e) ==
    IF e.pending = <<>> THEN e
    ELSE LET e1 == AddAll(e, [i \in 1..Len(e.pending) |-> Enliven(e.pending[i])])
             e2 == [e1 EXCEPT !.locked = FALSE, !.pending = <<>>,
                              !.lockInfo = NoLock]
         IN OnHistoryChange(e2)

\* the callback of enlivenObjects in _loadObjects
LoadObjectsDone(e) ==
    LET e1 == AddAll(e, [i \in 1..Len(e.pending) |-> Enliven(e.pending[i])])
        e2 == [e1 EXCEPT !.locked = FALSE, !.pending = <<>>,
                         !.lockInfo = NoLock]
    IN OnHistoryChange(e2)

(* ------------------------- drawing session --------------------------- *)

\* the snap test on image-space distance, the zoom forgotten
WithinSnapNoZoom(p0, q, z) ==
    LET dx == p0[1] - q[1]
        dy == p0[2] - q[2]
    IN dx * dx + dy * dy < snapDist * snapDist

\* Math.hypot(p0.x - q.x, p0.y - q.y) * zoom < snapDist, on the squares
WithinSnap(p0, q, z) ==
    LET dx == p0[1] - q[1]
        dy == p0[2] - q[2]
    IN (dx * dx + dy * dy) * z[1] * z[1] < snapDist * snapDist * z[2] * z[2]

RenderDrawHelpers(e, p) ==
    LET e1 == CanvasAdd(e, Circle(p))
        n == Len(e.drawPoints)
    IN IF n > 1
       THEN CanvasAdd(e1, Line(e.drawPoints[n - 1], e.drawPoints[n], FALSE))
       ELSE e1

\* finishPolygon() content with two points
FinishPolygonTwoPoints(e) ==
    IF Len(e.drawPoints) < 2 THEN e
    ELSE LET finalPoints == e.drawPoints
             poly == [Polygon(finalPoints) EXCEPT !.selectable = FALSE,
                                                  !.evented = FALSE]
         IN CanvasAdd(AbortDrawing(e), poly)

FinishPolygon(e) ==
    IF Len(e.drawPoints) < 3 THEN e
    ELSE LET finalPoints == e.drawPoints
             poly == [Polygon(finalPoints) EXCEPT !.selectable = FALSE,
                                                  !.evented = FALSE]
         IN CanvasAdd(AbortDrawing(e), poly)

HandleDrawClick(e, p) ==
    IF Len(e.drawPoints) > 2 /\ WithinSnap(e.drawPoints[1], p, e.zoom)
    THEN FinishPolygon(e)
    ELSE RenderDrawHelpers([e EXCEPT !.drawPoints = Append(@, p)], p)

(* ------------------------- other operations -------------------------- *)

\* captureSelectionState(): the index is 0-based, -1 without a selection
CaptureSelectionState(e) ==
    [e EXCEPT !.savedState = [index |-> e.active - 1,
                              isEditPoints |-> e.editPointsMode]]

ToggleEditPoints(e) ==
    IF e.active = 0 \/ e.canvas[e.active].type # "polygon" THEN e
    ELSE UpdateSelectionUI([e EXCEPT !.editPointsMode = ~@])

\* deleteSelected(): one selected object at most in this model
DeleteSelected(e) ==
    IF e.active = 0 THEN e
    ELSE LET i == e.active IN CanvasRemoveAt(DiscardActiveObject(e), i)

\* canvas.clear(): drops the selection, removes every object
CanvasClear(e) == RemoveKind(DiscardActiveObject(e), "all")

\* the callback with history.reset() moved before setZoom
ImageReadyResetFirst(e, z) ==
    LET e1 == HistoryReset(SetMode([e EXCEPT !.fitZoom = z], "edit"))
    IN [e1 EXCEPT !.zoom = z, !.baselined = TRUE]

\* the setBackgroundImage callback of loadImageAndData
ImageReady(e, z) ==
    LET e1 == SetMode([e EXCEPT !.zoom = z, !.fitZoom = z], "edit")
    IN [HistoryReset(e1) EXCEPT !.baselined = TRUE]

\* loadImageAndData after `await API.loadAnnotation`: regs is data.regions,
\* or "none" when the answer has no regions field
AnnotationReady(e, regs) ==
    IF regs = "none" THEN e
    ELSE HistorySave(AddAll(e, [i \in 1..Len(regs) |-> Polygon(regs[i])]))

\* detectTextLines without canvas.remove(...existingPolygons)
DetectReadyKeepsOld(e, regs) ==
    LET ok == SelectSeq(regs, LAMBDA r : Len(r) >= 3)
        e2 == AddAll(e, [i \in 1..Len(ok) |-> Polygon(ok[i])])
    IN TriggerAutoSave(HistorySave(e2))

\* detectTextLines after the response: regs is data.regions of a success
DetectReady(e, regs) ==
    LET e1 == RemoveKind(e, "region")
        ok == SelectSeq(regs, LAMBDA r : Len(r) >= 3)
        e2 == AddAll(e1, [i \in 1..Len(ok) |-> Polygon(ok[i])])
    IN TriggerAutoSave(HistorySave(e2))

\* Math.round(h / 2), the argument given in half pixels: floor(h/2 + 1/2)
Round(h) == (h + 1) \div 2

\* fabric.util.transformPoint(p - pathOffset, calcTransformMatrix()) for
\* point k of object o: its position on the canvas plane, in half pixels
TransformPoint(o, k) ==
    <<2 * o.points[k][1] + o.offset[1], 2 * o.points[k][2] + o.offset[2]>>

\* saveData() without Math.round: points on a half pixel are truncated
PayloadTruncated(objs) ==
    LET regs == SelectSeq(objs, LAMBDA o : o.type = "polygon" /\ o.class = "")
    IN [i \in 1..Len(regs) |->
           [k \in 1..Len(regs[i].points) |->
               <<TransformPoint(regs[i], k)[1] \div 2,
                 TransformPoint(regs[i], k)[2] \div 2>>]]

\* saveData() up to its await: the regions sent, and the request
Payload(objs) ==
    LET regs == SelectSeq(objs, LAMBDA o : o.type = "polygon" /\ o.class = "")
    IN [i \in 1..Len(regs) |->
           [k \in 1..Len(regs[i].points) |->
               <<Round(TransformPoint(regs[i], k)[1]),
                 Round(TransformPoint(regs[i], k)[2])>>]]

SaveData(e) ==
    [e EXCEPT !.writes = Append(@, [filename |-> e.filename,
                                    regions |-> Payload(e.canvas)])]

\* saveData() with a catch block that schedules another attempt
SaveSettledRetries(e, ok) == IF ok THEN e ELSE TriggerAutoSave(e)

\* saveData() after its await: the status text on success, console.error
\* in the catch block; nothing of the editor's state
SaveSettled(e, ok) == e

\* the mouse:wheel handler: r is zoom * 0.999 ** deltaY
LessFrac(a, b) == a[1] * b[2] < b[1] * a[2]
ZoomMax == <<20, 1>>
ZoomMin == <<1, 100>>
ClampZoom(r) ==
    IF LessFrac(ZoomMax, r) THEN ZoomMax
    ELSE IF LessFrac(r, ZoomMin) THEN ZoomMin ELSE r

\* the mouse:move handler in draw mode (not panning)
MoveDraw(e, p) ==
    IF Len(e.drawPoints) = 0 THEN e
    ELSE LET last == e.drawPoints[Len(e.drawPoints)]
         IN IF ~e.activeLine
            THEN CanvasAdd([e EXCEPT !.activeLine = TRUE], Line(last, p, TRUE))
            ELSE [e EXCEPT !.canvas =
                     [i \in 1..Len(@) |->
                         IF @[i].isActiveLine
                         THEN [@[i] EXCEPT !.points = <<last, p>>]
                         ELSE @[i]]]

\* the active object taken out of the stack of objects and put back at
\* place j, as fabric's bringForward, sendBackwards, bringToFront and
\* sendToBack do; no object event is fired
MoveTo(e, j) ==
    LET o == e.canvas[e.active]
        rest == RemoveAt(e.canvas, e.active)
    IN [e EXCEPT !.canvas = SubSeq(rest, 1, j - 1) \o <<o>>
                                \o SubSeq(rest, j, Len(rest)),
                 !.active = j]

BringForward(e) == IF e.active = Len(e.canvas) THEN e ELSE MoveTo(e, e.active + 1)
SendBackwards(e) == IF e.active = 1 THEN e ELSE MoveTo(e, e.active - 1)
BringToFront(e) == MoveTo(e, Len(e.canvas))
SendToBack(e) == MoveTo(e, 1)

ZOrderKeys == {"Ctrl+ArrowUp", "Ctrl+ArrowDown", "PageUp", "PageDown"}

\* the keydown handler on a z-order key: with an active object in edit mode
\* the object is moved, then history.save()
ZOrderKey(e, key) ==
    IF e.active = 0 \/ e.currentMode # "edit" THEN e
    ELSE HistorySave(CASE key = "Ctrl+ArrowUp" -> BringForward(e)
                       [] key = "Ctrl+ArrowDown" -> SendBackwards(e)
                       [] key = "PageUp" -> BringToFront(e)
                       [] OTHER -> SendToBack(e))

(* ------------------------------ actions ------------------------------ *)

(* ---------------------------- TextEditor ----------------------------- *)

\* indices count from 1 here, and 0 stands for the source's -1

Abs(x) == IF x < 0 THEN -x ELSE x
Max(S) == CHOOSE x \in S : \A y \in S : x >= y

TopOf(r) == Min({r[k][2] : k \in 1..Len(r)})
LeftOf(r) == Min({r[k][1] : k \in 1..Len(r)})

\* the comparator of sortRegionsTopToBottom
Compare(a, b) ==
    IF Abs(TopOf(a) - TopOf(b)) < 10
    THEN LeftOf(a) - LeftOf(b)
    ELSE TopOf(a) - TopOf(b)

\* Array.prototype.sort with that comparator: stable, by insertion
RECURSIVE InsertRegion(_, _)
InsertRegion(s, r) ==
    IF s = <<>> \/ Compare(r, Last(s)) >= 0
    THEN Append(s, r)
    ELSE Append(InsertRegion(Front(s), r), Last(s))

RECURSIVE SortRegionsTopToBottom(_)
SortRegionsTopToBottom(rs) ==
    IF rs = <<>> THEN <<>>
    ELSE InsertRegion(SortRegionsTopToBottom(Front(rs)), Last(rs))

\* the comparator is a consistent comparator for the regions of rs, as
\* Array.prototype.sort requires it: "less" and "equal" are transitive
Consistent(rs) ==
    \A i, j, k \in 1..Len(rs) :
       /\ Compare(rs[i], rs[j]) < 0 /\ Compare(rs[j], rs[k]) < 0
             => Compare(rs[i], rs[k]) < 0
       /\ Compare(rs[i], rs[j]) = 0 /\ Compare(rs[j], rs[k]) = 0
             => Compare(rs[i], rs[k]) = 0

Reorderings(rs) ==
    {[i \in 1..Len(rs) |-> rs[p[i]]] :
        p \in {q \in [1..Len(rs) -> 1..Len(rs)] :
                  \A i, j \in 1..Len(rs) : q[i] = q[j] => i = j}}

\* what regions.sort(comparator) may return: the stable sort when the
\* comparator is consistent, an order the engine chooses when it is not
SortOutcomes(rs) ==
    IF Consistent(rs) THEN {SortRegionsTopToBottom(rs)} ELSE Reorderings(rs)

RegionsAreEqual(r1, r2) ==
    /\ Len(r1) = Len(r2)
    /\ \A i \in 1..Len(r1) : r1[i][1] = r2[i][1] /\ r1[i][2] = r2[i][2]

\* the search loop of loadTextData and saveData: the first equal region
OriginalIndex(r, orig) ==
    LET hits == {i \in 1..Len(orig) : RegionsAreEqual(r, orig[i])}
    IN IF hits = {} THEN 0 ELSE Min(hits)

\* texts[i] || ''
TextAt(texts, i) == IF i \in DOMAIN texts THEN texts[i] ELSE ""

NoTexts == [i \in {} |-> ""]
RegionLow == <<<<0, 40>>, <<10, 40>>, <<10, 50>> >>

\* the annotation files on the server when the page opens
ServerInit ==
    [f \in Files |->
        IF f = "a"
        THEN [regions |-> <<RegionLow, Triangle>>, hasTexts |-> TRUE,
              texts |-> [i \in {1} |-> "low"]]
        ELSE [regions |-> <<Triangle>>, hasTexts |-> FALSE, texts |-> NoTexts]]

\* the numbers of a viewport transform: fractions <<num, den>> in lowest
\* terms, den > 0
RECURSIVE Gcd(_, _)
Gcd(a, b) == IF b = 0 THEN a ELSE Gcd(b, a % b)
Norm(f) ==
    LET g == Gcd(Abs(f[1]), f[2])
    IN <<f[1] \div g, f[2] \div g>>
Whole(n) == <<n, 1>>
FracAdd(a, b) ==
    LET g == Gcd(a[2], b[2])
    IN Norm(<<a[1] * (b[2] \div g) + b[1] * (a[2] \div g), (a[2] \div g) * b[2]>>)
FracSub(a, b) == FracAdd(a, <<-b[1], b[2]>>)
FracMul(a, b) ==
    LET a1 == Norm(<<a[1], b[2]>>)
        b1 == Norm(<<b[1], a[2]>>)
    IN <<a1[1] * b1[1], a1[2] * b1[2]>>
\* a / b for b > 0
FracDiv(a, b) == FracMul(a, <<b[2], b[1]>>)

\* the two canvases of the text page
Panels == {"left", "right"}
Other(p) == IF p = "left" THEN "right" ELSE "left"

\* canvas.viewportTransform [zoom, 0, 0, zoom, tx, ty] of a new fabric.Canvas
IdentityVpt == [zoom |-> Whole(1), tx |-> Whole(0), ty |-> Whole(0)]

\* the setBackgroundImage callbacks of imgEl.onload: the zoom that fits the
\* image of width imgWidth into 90% of a panel of width w, centred, 20 down
FitVpt(w, imgWidth) ==
    LET scale == FracMul(FracDiv(Whole(w), Whole(imgWidth)), <<9, 10>>)
        newW == FracMul(Whole(imgWidth), scale)
    IN [zoom |-> scale,
        tx |-> FracDiv(FracSub(Whole(w), newW), Whole(2)),
        ty |-> Whole(20)]

\* the text page not open; lastWrite records how the last write ended,
\* assigned the texts the user has confirmed, by display index; observed
\* what the progress queries of the recognition job have seen; panelWidth
\* is the width resize() gave both canvases, widths the widths of the
\* images on the server
TeClosed ==
    [open |-> FALSE, filename |-> "a", regions |-> <<>>, texts |-> NoTexts,
     recFetch |-> 0, pollFetch |-> 0, pollLoads |-> 0, pollTimers |-> 0,
     observed |-> "none",
     viewportTransform |-> [p \in Panels |-> IdentityVpt],
     isRightClickPanning |-> FALSE, afterRender |-> {},
     panelWidth |-> 600, widths |-> [f \in Files |-> 540],
     currentRegionIndex |-> 0, autoSaveTimeout |-> FALSE, timers |-> 0,
     polys |-> <<>>, imgs |-> <<>>, regFetch |-> <<>>, textFetch |-> <<>>,
     saveFetch |-> <<>>, writes |-> <<>>, server |-> ServerInit,
     saveStatus |-> "", lastWrite |-> "none", assigned |-> NoTexts]

\* loadImageAndData(): both canvases cleared, the image asked for
TeLoadImageAndData(t) ==
    [t EXCEPT !.polys = <<>>, !.imgs = Append(@, t.filename)]

\* the constructor and init() on file "a"
TeOpened == TeLoadImageAndData([TeClosed EXCEPT !.open = TRUE])

\* the page loaded again on the same file: constructor and init() anew, the
\* files on the server as they are
TeReopened(t) ==
    TeLoadImageAndData([TeClosed EXCEPT !.open = TRUE,
                                        !.filename = t.filename,
                                        !.server = t.server,
                                        !.panelWidth = t.panelWidth,
                                        !.widths = t.widths,
                                        !.assigned = t.assigned])

\* autoSave() without clearTimeout
TeAutoSaveNoClear(t) ==
    [t EXCEPT !.timers = @ + 1, !.autoSaveTimeout = TRUE]

\* autoSave(): clearTimeout(this.autoSaveTimeout) when set, then setTimeout
TeAutoSave(t) ==
    [t EXCEPT !.timers = (IF t.autoSaveTimeout THEN @ - 1 ELSE @) + 1,
              !.autoSaveTimeout = TRUE]

\* goImage(dir) arriving at file f
TeGoImage(t, f) == TeLoadImageAndData([t EXCEPT !.filename = f])

\* imgEl.onload of the load at position i: both backgrounds set and both
\* panels zoomed to fit the image that arrived, then loadRegions() up to
\* its await
TeImageLoaded(t, i) ==
    [t EXCEPT !.imgs = RemoveAt(@, i), !.regFetch = Append(@, t.filename),
              !.viewportTransform =
                  [p \in Panels |-> FitVpt(t.panelWidth, t.widths[t.imgs[i]])]]

\* imgEl.onerror
TeImageError(t, i) == [t EXCEPT !.imgs = RemoveAt(@, i)]

\* loadRegions() after its await, ok when the request succeeded and sorted
\* what the sort made of the regions; then loadTextData(originalRegions) up
\* to its await
TeRegionsLoaded(t, i, ok, sorted) ==
    LET orig == t.server[t.regFetch[i]].regions
        shown == {k \in 1..Len(sorted) : Len(sorted[k]) >= 3}
        added == SelectSeq([k \in 1..Len(sorted) |->
                               [index |-> k, points |-> sorted[k]]],
                           LAMBDA q : q.index \in shown)
        t1 == [t EXCEPT !.regFetch = RemoveAt(@, i)]
    IN IF ~ok THEN t1
       ELSE [t1 EXCEPT !.regions = sorted,
                       !.polys = @ \o added,
                       !.textFetch = Append(@, [file |-> t.filename,
                                                orig |-> orig])]

\* loadTextData(originalRegions) after its await
TeTextsLoaded(t, i, ok) ==
    LET req == t.textFetch[i]
        data == t.server[req.file]
        t1 == [t EXCEPT !.textFetch = RemoveAt(@, i)]
    IN IF ~ok \/ ~data.hasTexts THEN t1
       ELSE [t1 EXCEPT !.texts =
                [k \in 1..Len(t.regions) |->
                    TextAt(data.texts, OriginalIndex(t.regions[k], req.orig))]]

TeOpenTextModal(t, i) ==
    IF i < 1 \/ i > Len(t.regions) THEN t
    ELSE [t EXCEPT !.currentRegionIndex = i]

TeCloseModal(t) == [t EXCEPT !.currentRegionIndex = 0]

\* syncViewports(source, target): the target panel gets a copy of the
\* source panel's transform
SyncViewports(t, source) ==
    [t EXCEPT !.viewportTransform[Other(source)] = t.viewportTransform[source]]

\* the range test of the wheel listeners: newZoom < 0.1 || newZoom > 10
TeZoomMin == <<1, 10>>
TeZoomMax == <<10, 1>>
OutOfRange(z) == LessFrac(z, TeZoomMin) \/ LessFrac(TeZoomMax, z)

\* zoomFactor of a wheel event: 0.9 for deltaY > 0, 1.1 otherwise
ZoomFactor(deltaY) == IF deltaY > 0 THEN <<9, 10>> ELSE <<11, 10>>

\* the anchor of the wheel listeners with the translation left out
PointUnderNoShift(v, c) == <<FracDiv(c[1], v.zoom), FracDiv(c[2], v.zoom)>>

\* the image point under viewport position c: ((c.x - tx) / zoom,
\* (c.y - ty) / zoom), as the wheel listeners compute it
PointUnder(v, c) ==
    <<FracDiv(FracSub(c[1], v.tx), v.zoom), FracDiv(FracSub(c[2], v.ty), v.zoom)>>

\* the viewport position of image point q under transform v: q * zoom + t,
\* the equation the wheel listeners solve for the translation
ToViewport(v, q) ==
    <<FracAdd(FracMul(q[1], v.zoom), v.tx), FracAdd(FracMul(q[2], v.zoom), v.ty)>>

\* fabric.util.invertTransform of [zoom, 0, 0, zoom, tx, ty]: the matrix
\* divided by its determinant (zoom / (zoom * zoom), in lowest terms), the
\* translation mapped through it and negated
InvertTransform(v) ==
    LET r == FracDiv(Whole(1), v.zoom)
    IN [zoom |-> r,
        tx |-> FracSub(Whole(0), FracMul(v.tx, r)),
        ty |-> FracSub(Whole(0), FracMul(v.ty, r))]

\* originalX, originalY of getPolygonAtCoords for the position c within the
\* panel
OriginalCoords(v, c) ==
    LET invertedVpt == InvertTransform(v)
    IN <<FracAdd(FracMul(invertedVpt.zoom, c[1]), invertedVpt.tx),
         FracAdd(FracMul(invertedVpt.zoom, c[2]), invertedVpt.ty)>>

\* the listener for 'wheel' on the wrapper of panel p, the pointer at
\* offset c: the zoom multiplied by the factor unless that leaves the range,
\* the translation moved so that the image point under c stays under c
WheelZoom(t, p, c, deltaY) ==
    LET vpt == t.viewportTransform[p]
        newZoom == FracMul(vpt.zoom, ZoomFactor(deltaY))
        point == PointUnder(vpt, c)
    IN IF OutOfRange(newZoom) THEN t
       ELSE [t EXCEPT !.viewportTransform[p] =
                [zoom |-> newZoom,
                 tx |-> FracSub(c[1], FracMul(point[1], newZoom)),
                 ty |-> FracSub(c[2], FracMul(point[2], newZoom))]]

\* canvas.requestRenderAll() of panel p while an 'after:render' handler of
\* initViewportSync is registered on p
AfterRender(t, p) == IF p \in t.afterRender THEN SyncViewports(t, p) ELSE t

\* a wheel event over panel p: the canvas element is the target, so the
\* 'mouse:wheel' handler of initViewportSync runs first, then the event
\* bubbles to the wrapper's 'wheel' listener, which requests a render
TeWheel(t, p, c, deltaY) ==
    AfterRender(WheelZoom(SyncViewports(t, p), p, c, deltaY), p)

\* the 'mouse:down' handlers of panel p: button 0 over the polygon with
\* index i (0 over none) opens the modal, button 2 starts panning; then the
\* handler of initViewportSync registers 'after:render'
TeMouseDown(t, p, button, i) ==
    LET t1 == IF button = 0 THEN TeOpenTextModal(t, i)
              ELSE IF button = 2 THEN [t EXCEPT !.isRightClickPanning = TRUE]
              ELSE t
    IN [t1 EXCEPT !.afterRender = @ \cup {p}]

\* the 'mouse:move' handler of panel p, the pointer moved by d since the
\* last event
TeMouseMove(t, p, d) ==
    IF ~t.isRightClickPanning THEN t
    ELSE AfterRender(
           [t EXCEPT !.viewportTransform[p].tx = FracAdd(@, Whole(d[1])),
                     !.viewportTransform[p].ty = FracAdd(@, Whole(d[2]))], p)

\* the 'mouse:up' handlers of panel p: panning ends, the viewports are
\* synchronised, 'after:render' is taken off, synchronised again
TeMouseUp(t, p) ==
    LET t1 == SyncViewports([t EXCEPT !.isRightClickPanning = FALSE], p)
    IN SyncViewports([t1 EXCEPT !.afterRender = @ \ {p}], p)

\* saveCurrentText() with text in the input field
TeSaveCurrentText(t, text) ==
    IF t.currentRegionIndex = 0 THEN t
    ELSE TeAutoSave(
           [t EXCEPT !.texts =
               [k \in DOMAIN @ \cup {t.currentRegionIndex} |->
                   IF k = t.currentRegionIndex THEN text ELSE @[k]],
                     !.assigned =
               [k \in DOMAIN @ \cup {t.currentRegionIndex} |->
                   IF k = t.currentRegionIndex THEN text ELSE @[k]]])

\* saveData() up to its first await, API.loadAnnotation(this.filename)
TeSaveData(t) ==
    [t EXCEPT !.saveFetch = Append(@, t.filename), !.saveStatus = "saving"]

\* the texts saveData() sends: for every region shown that is found among
\* the regions on file, its text under the index on file
TextsInOriginalOrder(t, orig) ==
    LET at(k) == OriginalIndex(t.regions[k], orig)
        found == {at(k) : k \in 1..Len(t.regions)} \ {0}
    IN [o \in found |->
           TextAt(t.texts, Max({k \in 1..Len(t.regions) : at(k) = o}))]

\* saveData() between its two awaits; a failed load goes to the catch block
TeSaveDataLoaded(t, i, ok) ==
    LET orig == t.server[t.saveFetch[i]].regions
        t1 == [t EXCEPT !.saveFetch = RemoveAt(@, i)]
    IN IF ~ok THEN [t1 EXCEPT !.saveStatus = "error"]
       ELSE [t1 EXCEPT !.writes =
                Append(@, [filename |-> t.filename, regions |-> orig,
                           texts |-> TextsInOriginalOrder(t, orig)])]

\* saveData() after API.saveAnnotationWithTexts: the status text either way
TeSaveSettled(t, ok) ==
    [t EXCEPT !.saveStatus = IF ok THEN "saved" ELSE "error"]

\* the server answers the oldest write: the file replaced when it succeeds
TeWriteDone(t, ok) ==
    LET w == Head(t.writes)
        t1 == [t EXCEPT !.writes = Tail(@)]
        t2 == IF ok
              THEN [t1 EXCEPT !.server[w.filename] =
                       [regions |-> w.regions, hasTexts |-> TRUE,
                        texts |-> w.texts]]
              ELSE t1
    IN TeSaveSettled([t2 EXCEPT !.lastWrite = IF ok THEN "ok" ELSE "failed"],
                     ok)

\* the timer of autoSave fires: saveData()
TeTimerFired(t) ==
    TeSaveData([t EXCEPT !.timers = @ - 1,
                         !.autoSaveTimeout = @ /\ t.timers > 1])

\* recognizeText() up to its awaits: the annotation asked for, then the job
\* posted
TeRecognizeText(t) == [t EXCEPT !.recFetch = @ + 1, !.observed = "none"]

\* checkStatus() up to its await: the progress of the job asked for
CheckStatus(t) == [t EXCEPT !.pollFetch = @ + 1]

\* recognizeText() after its awaits: pollForRecognitionResults() when the
\* job was accepted, the status text only when not or when a request failed
TeRecognizeAnswered(t, accepted) ==
    LET t1 == [t EXCEPT !.recFetch = @ - 1]
    IN IF accepted THEN CheckStatus(t1) ELSE t1

\* checkStatus() after the progress query: 'completed' goes on to load the
\* annotation, any other status sets the timer again, and so does the catch
\* block when the query failed
TePollAnswered(t, outcome) ==
    LET t1 == [t EXCEPT !.pollFetch = @ - 1]
    IN IF outcome = "completed"
       THEN [t1 EXCEPT !.pollLoads = @ + 1, !.observed = "completed"]
       ELSE IF outcome = "error"
       THEN [t1 EXCEPT !.pollTimers = @ + 1, !.observed = "error"]
       ELSE [t1 EXCEPT !.pollTimers = @ + 1]

\* checkStatus() after 'completed' and its two loadAnnotation awaits:
\* loadTextData(originalRegions) up to its await, then autoSave(); the catch
\* block sets the timer again when a load failed
TePollLoaded(t, ok) ==
    LET t1 == [t EXCEPT !.pollLoads = @ - 1]
    IN IF ok
       THEN TeAutoSave([t1 EXCEPT !.textFetch =
                Append(@, [file |-> t.filename,
                           orig |-> t.server[t.filename].regions])])
       ELSE [t1 EXCEPT !.pollTimers = @ + 1, !.observed = "error"]

\* setTimeout(checkStatus, 1000) fires
TePollTimerFired(t) == CheckStatus([t EXCEPT !.pollTimers = @ - 1])

\* a step of the text page; the region editor is not on that page
TeCommit(t) ==
    /\ te.open
    /\ te' = t
    /\ UNCHANGED <<canvas, undoStack, redoStack, locked, pending, currentMode,
                   drawPoints, activeLine, active, editPointsMode, savedState,
                   autoSaveTimer, zoom, filename, timers, writes, imgPending,
                   annPending, detPending, baseZoom, fitZoom, owed, baselined,
                   lockInfo>>

Same(xs) == UNCHANGED xs
Loads == <<imgPending, annPending, detPending>>

Init ==
    /\ canvas = <<>>
    /\ undoStack = <<>>
    /\ redoStack = <<>>
    /\ locked = FALSE
    /\ pending = <<>>
    /\ currentMode = "null"
    /\ drawPoints = <<>>
    /\ activeLine = FALSE
    /\ active = 0
    /\ editPointsMode = FALSE
    /\ savedState = NoSaved
    /\ autoSaveTimer = FALSE
    /\ zoom = Zoom1
    /\ filename = "a"
    /\ timers = 0
    /\ writes = <<>>
    /\ imgPending = [NoLoads EXCEPT !["a"] = 1]
    /\ annPending = [NoLoads EXCEPT !["a"] = 1]
    /\ detPending = NoLoads
    /\ baseZoom = Zoom1
    /\ fitZoom = Zoom1
    /\ te = TeClosed
    /\ owed = 0
    /\ baselined = FALSE
    /\ lockInfo = NoLock
    /\ steps = 0

\* imgEl.onload, then the setBackgroundImage callback, of the load of f
ImageLoadedFor(f, z) ==
    /\ imgPending[f] > 0
    /\ imgPending' = [imgPending EXCEPT ![f] = @ - 1]
    /\ Commit(ImageReady(Ed, z))
    /\ Same(<<annPending, detPending>>)

ImageLoaded(z) == \E f \in Files : ImageLoadedFor(f, z)

\* imgEl.onerror
ImageErrorFor(f) ==
    /\ imgPending[f] > 0
    /\ imgPending' = [imgPending EXCEPT ![f] = @ - 1]
    /\ Same(<<annPending, detPending>>)
    /\ Commit(Ed)

ImageError == \E f \in Files : ImageErrorFor(f)

\* the answer to API.loadAnnotation(f) arrives
AnnotationLoadedFor(f, regs) ==
    /\ annPending[f] > 0
    /\ annPending' = [annPending EXCEPT ![f] = @ - 1]
    /\ Commit(AnnotationReady(Ed, regs))
    /\ Same(<<imgPending, detPending>>)

AnnotationLoaded(regs) == \E f \in Files : AnnotationLoadedFor(f, regs)

\* goImage(dir) to file f, or a popstate event: this.filename = f, then
\* loadImageAndData up to its await; cap bounds the loads in flight
GoTo(f, cap) ==
    /\ Total(imgPending) < cap
    /\ Total(annPending) < cap
    /\ imgPending' = [imgPending EXCEPT ![f] = @ + 1]
    /\ annPending' = [annPending EXCEPT ![f] = @ + 1]
    /\ Commit(CanvasClear([Ed EXCEPT !.filename = f]))
    /\ Same(detPending)

GoImage == \E f \in Files \ {filename} : GoTo(f, MaxPending)

KeyUndo == Commit(HistoryUndo(CaptureSelectionState(Ed))) /\ Same(Loads)

KeyRedo == Commit(HistoryRedo(CaptureSelectionState(Ed))) /\ Same(Loads)

\* the enlivenObjects callback runs
ApplyDone == locked /\ Commit(LoadObjectsDone(Ed)) /\ Same(Loads)

KeyMode(mode) == Commit(SetMode(Ed, mode)) /\ Same(Loads)

\* mouse:down with the left button in draw mode
MouseDown(p) ==
    /\ currentMode = "draw"
    /\ Commit(HandleDrawClick(Ed, p))
    /\ Same(Loads)

MouseMove(p) ==
    /\ currentMode = "draw"
    /\ Commit(MoveDraw(Ed, p))
    /\ Same(Loads)

CallFinishPolygon == Commit(FinishPolygon(Ed)) /\ Same(Loads)

CallAbortDrawing == Commit(AbortDrawing(Ed)) /\ Same(Loads)

KeyEscape ==
    /\ Commit(IF currentMode = "draw" /\ Len(drawPoints) > 0
              THEN AbortDrawing(Ed)
              ELSE IF editPointsMode THEN ToggleEditPoints(Ed)
              ELSE IF currentMode = "edit" THEN DiscardActiveObject(Ed)
              ELSE Ed)
    /\ Same(Loads)

\* a click on a selectable object in edit mode
Select(i) ==
    /\ currentMode = "edit"
    /\ i \in 1..Len(canvas)
    /\ canvas[i].selectable /\ canvas[i].evented
    /\ Commit(SetActiveObject(Ed, i))
    /\ Same(Loads)

KeyDelete == Commit(DeleteSelected(Ed)) /\ Same(Loads)

KeyEditPoints == Commit(ToggleEditPoints(Ed)) /\ Same(Loads)

\* detectTextLines() up to its await: the request names this.filename
DetectStart ==
    /\ Total(detPending) < MaxPending
    /\ detPending' = [detPending EXCEPT ![filename] = @ + 1]
    /\ Commit(Ed)
    /\ Same(<<imgPending, annPending>>)

DetectDoneFor(f, regs) ==
    /\ detPending[f] > 0
    /\ detPending' = [detPending EXCEPT ![f] = @ - 1]
    /\ Commit(IF regs = "error" THEN Ed ELSE DetectReady(Ed, regs))
    /\ Same(<<imgPending, annPending>>)

DetectDone(regs) == \E f \in Files : DetectDoneFor(f, regs)

\* the timer of triggerAutoSave fires (the oldest first): saveData()
AutoSaveFire ==
    /\ timers > 0
    /\ Commit(SaveData([Ed EXCEPT !.timers = @ - 1,
                                  !.autoSaveTimer = @ /\ timers > 1]))
    /\ Same(Loads)

\* the answer to a write arrives, or the request fails
SaveDone(ok) ==
    /\ writes # <<>>
    /\ Commit(SaveSettled([Ed EXCEPT !.writes = Tail(@)], ok))
    /\ Same(Loads)

Wheel(r) == Commit([Ed EXCEPT !.zoom = ClampZoom(r)]) /\ Same(Loads)

\* the active object dragged by d half pixels in edit mode: fabric moves it
\* and fires object:modified
Drag(d) ==
    /\ currentMode = "edit"
    /\ active # 0
    /\ Commit(OnObjectChanged(
           [Ed EXCEPT !.canvas[active].offset = <<@[1] + d[1], @[2] + d[2]>>],
           canvas[active]))
    /\ Same(Loads)

(* --------------------------- specifications -------------------------- *)

AnnSet == {"none", <<>>, <<Triangle>>}
DetSet == {"error", <<>>, <<Segment, Triangle>>}

\* the enlivenObjects callback is owed by the library, not a new event
Callback == ApplyDone /\ UNCHANGED steps

\* every operation of the editor, with one pointer position and one zoom
Event ==
    \/ ImageLoaded(Zoom1)
    \/ ImageError
    \/ \E regs \in AnnSet : AnnotationLoaded(regs)
    \/ GoImage
    \/ KeyUndo
    \/ KeyRedo
    \/ \E m \in {"edit", "draw"} : KeyMode(m)
    \/ \E p \in HistPoints : MouseDown(p)
    \/ \E p \in HistPoints : MouseMove(p)
    \/ CallFinishPolygon
    \/ KeyEscape
    \/ \E i \in 1..Len(canvas) : Select(i)
    \/ KeyDelete
    \/ KeyEditPoints
    \/ DetectStart
    \/ \E regs \in DetSet : DetectDone(regs)
    \/ AutoSaveFire
    \/ \E ok \in BOOLEAN : SaveDone(ok)

Next ==
    \/ steps < MaxSteps /\ steps' = steps + 1 /\ Event
    \/ Callback

Spec == Init /\ [][Next]_vars

\* the same events, each restoration completing before the next event: what
\* a build shows whose enlivenObjects calls back before it returns
QuietNext ==
    \/ ~locked /\ steps < MaxSteps /\ steps' = steps + 1 /\ Event
    \/ Callback

QuietSpec == Init /\ [][QuietNext]_vars

\* a drawing session on a loaded image: every pointer position and zoom
DrawEvent ==
    \/ \E z \in ZoomSet : ImageLoaded(z)
    \/ AnnotationLoaded(<<Stored>>)
    \/ KeyMode("draw")
    \/ \E p \in DrawPointSet : MouseDown(p)
    \/ MouseMove(Origin)
    \/ CallFinishPolygon
    \/ CallAbortDrawing
    \/ KeyEscape
    \/ \E r \in WheelSet : Wheel(r)
    \/ KeyUndo

DrawNext ==
    \/ steps < MaxDrawSteps /\ steps' = steps + 1 /\ DrawEvent
    \/ Callback

DrawSpec == Init /\ [][DrawNext]_vars

\* one region drawn after the other on a loaded image, with undo and redo
\* between two drawings, each restoration allowed to complete
SeqBound == Len(Regions(canvas)) <= maxHistory + MaxExtra

Quiet == baselined /\ ~locked

SeqNext ==
    /\ \/ ImageLoaded(Zoom1) /\ UNCHANGED steps
       \/ Quiet /\ KeyMode("draw") /\ UNCHANGED steps
       \/ Quiet /\ MouseDown(Origin) /\ UNCHANGED steps
       \/ Quiet /\ drawPoints = <<>> /\ KeyUndo /\ UNCHANGED steps
       \/ Quiet /\ drawPoints = <<>> /\ KeyRedo /\ UNCHANGED steps
       \/ Callback
    /\ SeqBound'

SeqSpec == Init /\ [][SeqNext]_vars

\* undo and redo around image loads; enlivenObjects always calls back
LiveEvent ==
    \/ ImageLoaded(Zoom1)
    \/ AnnotationLoaded(<<Triangle>>)
    \/ GoImage
    \/ KeyUndo
    \/ KeyRedo
    \/ \E m \in {"edit", "draw"} : KeyMode(m)
    \/ \E i \in 1..Len(canvas) : Select(i)
    \/ KeyDelete

LiveNext ==
    \/ steps < MaxLiveSteps /\ steps' = steps + 1 /\ LiveEvent
    \/ Callback

LiveSpec == Init /\ [][LiveNext]_vars /\ WF_vars(Callback)

(* ------------------- both pages, with navigation -------------------- *)

MaxPageSteps == 6
\* loads of one kind in flight while the user keeps navigating
MaxNavPending == 2

\* no region editor on the page: its variables stay as constructed
EditorAbsent ==
    /\ canvas = <<>>
    /\ undoStack = <<>>
    /\ redoStack = <<>>
    /\ locked = FALSE
    /\ pending = <<>>
    /\ currentMode = "null"
    /\ drawPoints = <<>>
    /\ activeLine = FALSE
    /\ active = 0
    /\ editPointsMode = FALSE
    /\ savedState = NoSaved
    /\ autoSaveTimer = FALSE
    /\ zoom = Zoom1
    /\ filename = "a"
    /\ timers = 0
    /\ writes = <<>>
    /\ imgPending = NoLoads
    /\ annPending = NoLoads
    /\ detPending = NoLoads
    /\ baseZoom = Zoom1
    /\ fitZoom = Zoom1
    /\ owed = 0
    /\ baselined = FALSE
    /\ lockInfo = NoLock
    /\ steps = 0

\* the text page opened on file "a": no region editor on that page
TextInit == EditorAbsent /\ te = TeOpened

TextImageLoaded == \E i \in 1..Len(te.imgs) : TeCommit(TeImageLoaded(te, i))

TextImageError == \E i \in 1..Len(te.imgs) : TeCommit(TeImageError(te, i))

TextRegionsLoaded(ok) ==
    \E i \in 1..Len(te.regFetch) :
       \E sorted \in SortOutcomes(te.server[te.regFetch[i]].regions) :
          TeCommit(TeRegionsLoaded(te, i, ok, sorted))

TextTextsLoaded(ok) ==
    \E i \in 1..Len(te.textFetch) : TeCommit(TeTextsLoaded(te, i, ok))

\* a left click on the polygon that carries index i, in either panel:
\* button down and up
TextClick(i) ==
    /\ \E k \in 1..Len(te.polys) : te.polys[k].index = i
    /\ \E p \in Panels : TeCommit(TeMouseUp(TeMouseDown(te, p, 0, i), p))

\* Escape with the modal open
TextEscape == te.currentRegionIndex # 0 /\ TeCommit(TeCloseModal(te))

\* Ctrl+Enter
TextCtrlEnter(text) == TeCommit(TeSaveCurrentText(te, text))

\* Ctrl+S
TextCtrlS == TeCommit(TeSaveData(te))

TextGoImage ==
    /\ Len(te.imgs) < MaxNavPending
    /\ \E f \in Files \ {te.filename} : TeCommit(TeGoImage(te, f))

TextTimer == te.timers > 0 /\ TeCommit(TeTimerFired(te))

TextSaveLoaded(ok) ==
    \E i \in 1..Len(te.saveFetch) : TeCommit(TeSaveDataLoaded(te, i, ok))

TextWriteDone(ok) == te.writes # <<>> /\ TeCommit(TeWriteDone(te, ok))

NavGoImage == \E f \in Files \ {filename} : GoTo(f, MaxNavPending)

PageAnnSet == {"none", <<Triangle>>}
PageDetSet == {"error", <<Stored>>}
PageTexts == {"", "t"}
HalfPixel == <<1, 0>>

\* the region editor's page
EditorEvent ==
    \/ \E z \in ZoomSet : ImageLoaded(z)
    \/ ImageError
    \/ \E regs \in PageAnnSet : AnnotationLoaded(regs)
    \/ NavGoImage
    \/ \E m \in {"edit", "draw"} : KeyMode(m)
    \/ MouseDown(Origin)
    \/ \E i \in 1..Len(canvas) : Select(i)
    \/ Drag(HalfPixel)
    \/ KeyDelete
    \/ KeyUndo
    \/ DetectStart
    \/ \E regs \in PageDetSet : DetectDone(regs)

\* the text page
TextEvent ==
    \/ TextImageLoaded
    \/ TextImageError
    \/ \E ok \in BOOLEAN : TextRegionsLoaded(ok)
    \/ \E ok \in BOOLEAN : TextTextsLoaded(ok)
    \/ \E i \in 1..Len(te.regions) : TextClick(i)
    \/ TextEscape
    \/ \E text \in PageTexts : TextCtrlEnter(text)
    \/ TextCtrlS
    \/ TextGoImage
    \/ \E ok \in BOOLEAN : TextSaveLoaded(ok)

\* timers and the server's answers to writes come by themselves
EditorTimer == ~te.open /\ AutoSaveFire /\ UNCHANGED steps
TextPageTimer == TextTimer /\ UNCHANGED steps

PageNext ==
    \/ ~te.open /\ steps < MaxPageSteps /\ steps' = steps + 1 /\ EditorEvent
    \/ steps < MaxPageSteps /\ steps' = steps + 1 /\ TextEvent
    \/ ~te.open /\ Callback
    \/ EditorTimer
    \/ TextPageTimer
    \/ \E ok \in BOOLEAN : ~te.open /\ SaveDone(ok) /\ UNCHANGED steps
    \/ \E ok \in BOOLEAN : TextWriteDone(ok) /\ UNCHANGED steps

PageSpec == (Init \/ TextInit) /\ [][PageNext]_vars

\* the region editor on one image: every kind of mutation, and a timer that
\* fires when it is due
MaxSaveSteps == 5

SaveEvent ==
    \/ ImageLoaded(Zoom1)
    \/ AnnotationLoaded(<<Triangle>>)
    \/ \E i \in 1..Len(canvas) : Select(i)
    \/ Drag(HalfPixel)
    \/ KeyDelete
    \/ KeyUndo
    \/ KeyRedo
    \/ DetectStart
    \/ DetectDone(<<Stored>>)

SaveNext ==
    \/ steps < MaxSaveSteps /\ steps' = steps + 1 /\ SaveEvent
    \/ Callback
    \/ EditorTimer
    \/ SaveDone(TRUE) /\ UNCHANGED steps

SaveSpec == Init /\ [][SaveNext]_vars /\ WF_vars(EditorTimer)

(* ------------- the text page over every storage order --------------- *)

MaxStored == 3
MaxOrderSteps == 3

\* a triangle with its left edge at x and its top at y
RegionAt(x, y) == <<<<x, y>>, <<x + 10, y>>, <<x + 10, y + 10>> >>

\* two regions on one line, one above them, and one less than 10 below the
\* lower of the two
StoredRegions ==
    {RegionAt(80, 100), RegionAt(10, 105), RegionAt(0, 50), RegionAt(5, 114)}

StoredOrders == UNION {[1..n -> StoredRegions] : n \in 0..MaxStored}

OrderInit ==
    /\ EditorAbsent
    /\ \E rs \in StoredOrders :
          te = [TeOpened EXCEPT !.server["a"] =
                   [regions |-> rs, hasTexts |-> FALSE, texts |-> NoTexts]]

\* nothing of the text page is in flight or due
TeSettled(t) ==
    /\ t.imgs = <<>> /\ t.regFetch = <<>> /\ t.textFetch = <<>>
    /\ t.saveFetch = <<>> /\ t.writes = <<>> /\ t.timers = 0

\* the browser reloads the page once the last save has gone through
TextReopen ==
    /\ TeSettled(te)
    /\ te.lastWrite = "ok"
    /\ TeCommit(TeReopened(te))

OrderTexts == {"t"}

OrderEvent ==
    \/ \E i \in 1..Len(te.regions) : TextClick(i)
    \/ \E text \in OrderTexts : TextCtrlEnter(text)
    \/ TextReopen

OrderNext ==
    \/ steps < MaxOrderSteps /\ steps' = steps + 1 /\ OrderEvent
    \/ TextImageLoaded /\ UNCHANGED steps
    \/ TextRegionsLoaded(TRUE) /\ UNCHANGED steps
    \/ TextTextsLoaded(TRUE) /\ UNCHANGED steps
    \/ TextPageTimer
    \/ TextSaveLoaded(TRUE) /\ UNCHANGED steps
    \/ TextWriteDone(TRUE) /\ UNCHANGED steps

OrderSpec == OrderInit /\ [][OrderNext]_vars

(* ------------------ the panels of the text page --------------------- *)

MaxViewSteps == 3

\* fabricImg.width of the images on the server: one that fits at zoom 1, one
\* ten times a panel, one a tenth of a panel
ImageWidths == {540, 6000, 60}

\* pointer offsets within a panel, and pointer movements
Cursors == {<<Whole(0), Whole(0)>>, <<Whole(100), Whole(50)>>}
PanDeltas == {<<7, -3>>}
DeltaYs == {-100, 100}

\* the text page opened on file "a", the images of any of the widths
ViewInit ==
    /\ EditorAbsent
    /\ \E w \in [Files -> ImageWidths] :
          te = TeLoadImageAndData([TeClosed EXCEPT !.open = TRUE, !.widths = w])

TextWheel(p, c, deltaY) == TeCommit(TeWheel(te, p, c, deltaY))

\* a button pressed over panel p, off every polygon
TextMouseDown(p, button) ==
    /\ p \notin te.afterRender
    /\ TeCommit(TeMouseDown(te, p, button, 0))

\* the pointer moved during a pan
TextMouseMove(p, d) ==
    /\ te.isRightClickPanning
    /\ TeCommit(TeMouseMove(te, p, d))

\* the button pressed over panel p released
TextMouseUp(p) == p \in te.afterRender /\ TeCommit(TeMouseUp(te, p))

ViewEvent ==
    \/ \E p \in Panels, c \in Cursors, deltaY \in DeltaYs : TextWheel(p, c, deltaY)
    \/ \E p \in Panels, button \in {0, 2} : TextMouseDown(p, button)
    \/ \E p \in Panels, d \in PanDeltas : TextMouseMove(p, d)
    \/ \E p \in Panels : TextMouseUp(p)
    \/ TextGoImage

ViewNext ==
    \/ steps < MaxViewSteps /\ steps' = steps + 1 /\ ViewEvent
    \/ TextImageLoaded /\ UNCHANGED steps

ViewSpec == ViewInit /\ [][ViewNext]_vars

(* --------------------- the recognition job ------------------------- *)

MaxPollSteps == 4

\* what a progress query comes back with: status 'completed', any other
\* status, or a failed request
PollOutcomes == {"completed", "running", "error"}

\* the recognition button, no job of this page under way
TextRecognize ==
    /\ te.recFetch + te.pollFetch + te.pollLoads + te.pollTimers = 0
    /\ TeCommit(TeRecognizeText(te))

TextRecognizeAnswered(accepted) ==
    te.recFetch > 0 /\ TeCommit(TeRecognizeAnswered(te, accepted))

TextPollAnswered(outcome) ==
    te.pollFetch > 0 /\ TeCommit(TePollAnswered(te, outcome))

TextPollLoaded(ok) == te.pollLoads > 0 /\ TeCommit(TePollLoaded(te, ok))

TextPollTimer == te.pollTimers > 0 /\ TeCommit(TePollTimerFired(te))

PollEvent ==
    \/ TextRecognize
    \/ \E accepted \in BOOLEAN : TextRecognizeAnswered(accepted)
    \/ \E outcome \in PollOutcomes : TextPollAnswered(outcome)
    \/ \E ok \in BOOLEAN : TextPollLoaded(ok)
    \/ TextGoImage

PollNext ==
    \/ steps < MaxPollSteps /\ steps' = steps + 1 /\ PollEvent
    \/ TextPollTimer /\ UNCHANGED steps
    \/ TextImageLoaded /\ UNCHANGED steps
    \/ TextRegionsLoaded(TRUE) /\ UNCHANGED steps
    \/ TextTextsLoaded(TRUE) /\ UNCHANGED steps
    \/ TextPageTimer
    \/ TextSaveLoaded(TRUE) /\ UNCHANGED steps
    \/ TextWriteDone(TRUE) /\ UNCHANGED steps

PollSpec == TextInit /\ [][PollNext]_vars

(* ------------------ the text page across images --------------------- *)

MaxNavSteps == 3

\* the text stored with image "a" and with no other image, and what the
\* user types
TextOfA == "low"
NavTexts == {"t"}

\* the text page opened on file "a", whose annotation holds TextOfA for one
\* of its two regions; the annotation of file "b" holds one region and no
\* texts
NavInit ==
    /\ EditorAbsent
    /\ \E o \in 1..2 :
          te = [TeOpened EXCEPT !.server["a"].texts = [i \in {o} |-> TextOfA]]

NavEvent ==
    \/ \E i \in 1..Len(te.regions) : TextClick(i)
    \/ TextEscape
    \/ \E text \in NavTexts : TextCtrlEnter(text)
    \/ TextCtrlS
    \/ TextGoImage

NavNext ==
    \/ steps < MaxNavSteps /\ steps' = steps + 1 /\ NavEvent
    \/ TextImageLoaded /\ UNCHANGED steps
    \/ TextRegionsLoaded(TRUE) /\ UNCHANGED steps
    \/ TextTextsLoaded(TRUE) /\ UNCHANGED steps
    \/ TextPageTimer
    \/ TextSaveLoaded(TRUE) /\ UNCHANGED steps
    \/ TextWriteDone(TRUE) /\ UNCHANGED steps

NavSpec == NavInit /\ [][NavNext]_vars

(* ------------------ detection runs on a loaded image ----------------- *)

MaxDetectSteps == 5

\* what /api/detect_lines may answer: a failure, no region, or three regions
\* of which the first has two points only
Detections == {"error", <<>>, <<Segment, Stored, Triangle>>}

DetectEvent ==
    \/ ImageLoaded(Zoom1)
    \/ AnnotationLoaded(<<Triangle>>)
    \/ KeyMode("draw")
    \/ MouseDown(Origin)
    \/ \E i \in 1..Len(canvas) : Select(i)
    \/ KeyDelete
    \/ KeyUndo
    \/ DetectStart
    \/ \E regs \in Detections : DetectDone(regs)

DetectNext ==
    \/ steps < MaxDetectSteps /\ steps' = steps + 1 /\ DetectEvent
    \/ Callback
    \/ AutoSaveFire /\ UNCHANGED steps
    \/ \E ok \in BOOLEAN : SaveDone(ok) /\ UNCHANGED steps

DetectSpec == Init /\ [][DetectNext]_vars

(* ------------------- the order of regions on one image --------------- *)

MaxStackSteps == 5

KeyZOrder(key) == Commit(ZOrderKey(Ed, key)) /\ Same(Loads)

StackEvent ==
    \/ ImageLoaded(Zoom1)
    \/ AnnotationLoaded(<<Stored, Triangle>>)
    \/ \E i \in 1..Len(canvas) : Select(i)
    \/ \E key \in ZOrderKeys : KeyZOrder(key)
    \/ Drag(HalfPixel)
    \/ KeyDelete
    \/ KeyUndo

StackNext ==
    \/ steps < MaxStackSteps /\ steps' = steps + 1 /\ StackEvent
    \/ Callback
    \/ AutoSaveFire /\ UNCHANGED steps
    \/ \E ok \in BOOLEAN : SaveDone(ok) /\ UNCHANGED steps

StackSpec == Init /\ [][StackNext]_vars

(* ------------------------------ claims ------------------------------- *)

Stacks == <<undoStack, redoStack>>

\* history.reset() runs in this step, during a restoration
ResetNow == lockInfo'.reset /\ ~lockInfo.reset

\* the lengths a restoration must leave: the moved entry, nothing else
MovedOne ==
    /\ lockInfo.kind = "undo" =>
          /\ Len(undoStack') = lockInfo.undoLen - 1
          /\ Len(redoStack') = lockInfo.redoLen + 1
    /\ lockInfo.kind = "redo" =>
          /\ Len(undoStack') = lockInfo.undoLen + 1
          /\ Len(redoStack') = lockInfo.redoLen - 1
    /\ Len(undoStack') + Len(redoStack') = lockInfo.undoLen + lockInfo.redoLen

\* C1 as stated: while the lock is set no save() changes the stacks, and
\* every restoration that completes has moved exactly one entry between them.
C1_Original ==
    [][/\ (locked /\ ~ResetNow) => UNCHANGED Stacks
       /\ (locked /\ ~locked') => MovedOne]_vars

\* C1: while the lock is set the stacks change only by a history.reset() of
\* an image load (never by a save(), whoever fires it), and a restoration
\* that completes without such a reset has moved exactly one entry: undo
\* leaves undoStack one shorter and redoStack one longer, redo the reverse,
\* the sum of the lengths unchanged.
C1_LockSuppressesSave ==
    [][/\ (locked /\ ~ResetNow) => UNCHANGED Stacks
       /\ (locked /\ ~locked' /\ ~lockInfo.reset) => MovedOne]_vars

\* an undo in progress whose removal of the regions fired object:removed,
\* and with it save(), under the lock
C1_Witness ==
    /\ locked
    /\ lockInfo.kind = "undo"
    /\ ~lockInfo.reset
    /\ Regions(Last(redoStack)) # <<>>
    /\ Regions(canvas) = <<>>
    /\ Len(undoStack) = lockInfo.undoLen - 1

\* Ctrl+Z and Ctrl+Shift+Z were never pressed: both record the selection
NoUndoYet == savedState = NoSaved

\* C2: undoStack never holds more than maxHistory snapshots; as long as no
\* undo was asked for, after n regions were drawn one after the other on a
\* loaded image (one save() each, after the baseline) it holds the
\* min(n + 1, maxHistory) most recent snapshots, oldest first: entry i shows
\* the first n - k + i regions, the older ones having been evicted.
C2_BoundedHistory ==
    /\ Len(undoStack) <= maxHistory
    /\ (baselined /\ NoUndoYet) =>
          LET regs == Regions(canvas)
              n == Len(regs)
              k == Len(undoStack)
          IN /\ k = Min({n + 1, maxHistory})
             /\ \A i \in 1..k :
                   undoStack[i] = Snapshot(SubSeq(regs, 1, n - k + i))

\* more than maxHistory regions drawn, no undo yet: entries were evicted
C2_Witness ==
    /\ baselined
    /\ NoUndoYet
    /\ Len(Regions(canvas)) > maxHistory
    /\ Len(undoStack) = maxHistory

\* after N > maxHistory regions drawn in a row, every snapshot was undone
\* that undo() lets go of: the first entry popped shows all N regions
AllUndone ==
    /\ ~locked
    /\ Len(undoStack) = 1
    /\ Len(redoStack) = maxHistory - 1
    /\ Len(Regions(redoStack[1])) > maxHistory

\* C3 as stated: the regions left are those of an evicted snapshot, one of
\* the first N - maxHistory mutations' states, and not the empty state.
C3_Original ==
    AllUndone =>
        /\ Len(Regions(canvas)) <= Len(Regions(redoStack[1])) - maxHistory
        /\ Regions(canvas) # <<>>

\* C3: after N > maxHistory mutations on a freshly loaded image, undo asked
\* for maxHistory times leaves the regions of the oldest snapshot still on
\* the stack, the state after mutation N - (maxHistory - 1): only
\* maxHistory - 1 undos take effect, the last finds one entry and does
\* nothing. It is not the original empty state.
C3_UndoReachesOldestKept ==
    AllUndone =>
        /\ Snapshot(Regions(canvas)) = undoStack[1]
        /\ Len(Regions(canvas)) = Len(Regions(redoStack[1])) - (maxHistory - 1)
        /\ Regions(canvas) # <<>>
        /\ HistoryUndo(Ed) = Ed

C3_Witness == AllUndone /\ Len(Regions(redoStack[1])) = maxHistory + MaxExtra

\* C4: a step from Idle to Idle that changes undoStack is one in which
\* save() ran unsuppressed (undo and redo leave the lock set): it leaves
\* redoStack empty. And redo() on an empty redoStack, as after undo, undo and
\* a new mutation, changes neither stack nor the canvas.
C4_RedoInvalidation ==
    [][/\ (~locked /\ ~locked' /\ undoStack' # undoStack) => redoStack' = <<>>
       /\ (redoStack = <<>> /\ KeyRedo) =>
             UNCHANGED <<undoStack, redoStack, canvas>>]_vars

\* two undos done, three points placed: the next click closes the polygon,
\* a new mutation that finds two entries on redoStack
C4_Witness ==
    /\ ~locked
    /\ Len(redoStack) >= 2
    /\ currentMode = "draw"
    /\ Len(drawPoints) = 3
    /\ steps < MaxSteps

\* C5 as stated: once an image load has baselined the history, undoStack
\* holds at least one snapshot.
C5_Original == baselined => Len(undoStack) >= 1

\* C6 as stated: the image-load callback, the one caller of reset(), leaves
\* one snapshot, that of the canvas, on undoStack and none on redoStack.
C6_Original ==
    [][(\E z \in ZoomSet : ImageLoaded(z)) =>
          /\ Len(undoStack') = 1
          /\ undoStack'[1] = Snapshot(canvas')
          /\ redoStack' = <<>>]_vars

\* C7 as stated: when a restoration completes, the canvas holds the objects
\* of the snapshot on top of undoStack (for a redo, the one just moved
\* there), in its order, and nothing else.
C7_Original ==
    [][(locked /\ ~locked' /\ Len(undoStack') > 0) =>
          Snapshot(canvas') = Last(undoStack')]_vars

\* C8: every restoration ends: the lock set by undo() or redo() is released,
\* and the change notification it owes is made once, when the lock is
\* released, and at no other time.
C8_RestorationCompletes ==
    /\ [](owed = IF locked THEN 1 ELSE 0)
    /\ locked ~> ~locked

\* an undo has completed: its entry is on redoStack and the lock is released
C8_Witness == ~locked /\ owed = 0 /\ redoStack # <<>> /\ autoSaveTimer

Sq(x) == x * x

\* the click is nearer than snapDist viewport pixels to the first point
NearFirst(p) ==
    Sq(zoom[2]) * Sq(snapDist) >
        Sq(zoom[1]) * (Sq(p[1] - drawPoints[1][1]) + Sq(p[2] - drawPoints[1][2]))

\* the regions of the canvas gained one, with these vertices, at the end
OneRegionMore(points) ==
    LET new == Regions(canvas')
    IN /\ Len(new) = Len(Regions(canvas)) + 1
       /\ \A i \in 1..Len(Regions(canvas)) :
             new[i].points = Regions(canvas)[i].points
       /\ Last(new).points = points
       /\ Last(canvas') = Last(new)

\* C9: a placement click with at most 2 points collected appends the point;
\* with 3 or more collected and the click nearer than snapDist to the first
\* point (image-space distance times zoom) it closes the polygon over the
\* points collected, the clicked point left out; otherwise it appends.
C9_SnapToClose ==
    [][\A p \in DrawPointSet :
          MouseDown(p) =>
              IF Len(drawPoints) >= 3 /\ NearFirst(p)
              THEN /\ OneRegionMore(drawPoints)
                   /\ drawPoints' = <<>>
              ELSE /\ drawPoints' = Append(drawPoints, p)
                   /\ Regions(canvas') = Regions(canvas)]_vars

\* the example: (0,0), (10,0), (10,10) closed at zoom 1 into a region that
\* draw mode left unselectable
C9_Witness ==
    /\ currentMode = "draw"
    /\ zoom = Zoom1
    /\ drawPoints = <<>>
    /\ canvas # <<>>
    /\ Last(canvas).points = Triangle
    /\ IsRegion(Last(canvas))
    /\ ~Last(canvas).selectable

\* finishPolygon() did what it does with three points or more, but for the
\* history
Finished ==
    /\ OneRegionMore(drawPoints)
    /\ drawPoints' = <<>>
    /\ Temps(canvas') = <<>>
    /\ ~activeLine'
    /\ autoSaveTimer'

PushedOne ==
    /\ undoStack' = Append(IF Len(undoStack) >= maxHistory
                           THEN Tail(undoStack) ELSE undoStack,
                           Snapshot(canvas'))
    /\ redoStack' = <<>>

Untouched ==
    UNCHANGED <<canvas, undoStack, redoStack, locked, pending, currentMode,
                drawPoints, activeLine, active, editPointsMode, savedState,
                autoSaveTimer, zoom>>

NotTemp(o) == ~IsTemp(o)

\* C11: abortDrawing(), whatever the state, leaves drawPoints empty and no
\* helper object on the canvas; every other object stays, in its place; no
\* snapshot is pushed, no autosave timer started, no write issued.
C11_AbortDrawing ==
    [][CallAbortDrawing =>
          /\ drawPoints' = <<>>
          /\ ~activeLine'
          /\ Temps(canvas') = <<>>
          /\ canvas' = SelectSeq(canvas, NotTemp)
          /\ UNCHANGED <<undoStack, redoStack, autoSaveTimer, timers, writes>>]_vars

\* helpers were on the canvas when the last snapshot was taken, and are gone
\* with the collected points, without a snapshot since
C11_Witness ==
    /\ currentMode = "draw"
    /\ drawPoints = <<>>
    /\ Temps(canvas) = <<>>
    /\ Regions(canvas) # <<>>
    /\ undoStack # <<>>
    /\ \E i \in 1..Len(Last(undoStack)) : Last(undoStack)[i].class = "temp"
    /\ ~locked

\* C12 as stated: setMode('draw') leaves no collected point, no helper and
\* no selection; setMode('edit') leaves every region selectable and evented.
C12_Original ==
    [][/\ KeyMode("draw") =>
             /\ drawPoints' = <<>>
             /\ Temps(canvas') = <<>>
             /\ active' = 0
       /\ KeyMode("edit") =>
             \A i \in 1..Len(canvas') :
                 IsRegion(canvas'[i]) =>
                     canvas'[i].selectable /\ canvas'[i].evented]_vars

\* every object of the canvas has selectable and evented set to flag
AllSet(objs, flag) ==
    \A i \in 1..Len(objs) : objs[i].selectable = flag /\ objs[i].evented = flag

\* C12: setMode('draw') discards the active selection and makes every object
\* unselectable, and leaves a drawing in progress as it is (the collected
\* points and the helpers stay); setMode('edit') discards the drawing in
\* progress and makes every object on the canvas, the regions among them,
\* selectable and evented. Neither touches the history.
C12_SetMode ==
    [][/\ KeyMode("draw") =>
             /\ currentMode' = "draw"
             /\ active' = 0
             /\ drawPoints' = drawPoints
             /\ activeLine' = activeLine
             /\ canvas' = SetAll(canvas, FALSE)
             /\ UNCHANGED Stacks
       /\ KeyMode("edit") =>
             /\ currentMode' = "edit"
             /\ drawPoints' = <<>>
             /\ ~activeLine'
             /\ canvas' = SetAll(SelectSeq(canvas, NotTemp), TRUE)
             /\ AllSet(Regions(canvas'), TRUE)
             /\ UNCHANGED Stacks]_vars

\* a region closed in draw mode, where it was made unselectable, is
\* selectable in edit mode, and no drawing is in progress
C12_Witness ==
    /\ currentMode = "edit"
    /\ drawPoints = <<>>
    /\ Temps(canvas) = <<>>
    /\ \E i \in 1..Len(canvas) :
          /\ IsRegion(canvas[i])
          /\ canvas[i].points = <<Origin, Origin, Origin>>
          /\ canvas[i].selectable /\ canvas[i].evented
    /\ ~baselined


\* saveData() is entered in this step: by the region editor, by the text page
EditorSaves == Len(writes') > Len(writes)
TextSaves == Len(te'.saveFetch) > Len(te.saveFetch)

\* C13: in either editor at most one autosave timer is pending at any time,
\* a mutation that finds a timer pending leaves one timer pending, and
\* saveData() is entered only when a timer fires (on the text page, also by
\* Ctrl+S), once per firing: mutations that follow each other before the
\* timer fires cause one write, issued after the last of them.
C13_OneTimer ==
    /\ [](timers <= 1 /\ te.timers <= 1)
    /\ [](autoSaveTimer <=> timers = 1)
    /\ [](te.autoSaveTimeout <=> te.timers = 1)
    /\ [][/\ EditorSaves =>
               /\ EditorTimer
               /\ timers = 1 /\ timers' = 0
               /\ Len(writes') = Len(writes) + 1
          /\ EditorTimer => EditorSaves
          /\ TextSaves =>
               /\ TextPageTimer \/ TextCtrlS
               /\ Len(te'.saveFetch) = Len(te.saveFetch) + 1
          /\ TextPageTimer => TextSaves /\ te.timers = 1 /\ te'.timers = 0]_vars

\* two mutations, the annotation's region added and then dragged, and one timer
C13_Witness ==
    /\ ~te.open
    /\ steps = 4
    /\ timers = 1
    /\ writes = <<>>
    /\ \E i \in 1..Len(canvas) : IsRegion(canvas[i]) /\ canvas[i].offset # NoOffset


\* the regions on the canvas, each with its points and where it was dragged
Geometry(objs) ==
    [i \in 1..Len(Regions(objs)) |->
        <<Regions(objs)[i].points, Regions(objs)[i].offset>>]

C15_Original ==
    [][/\ filename' # filename =>
             /\ Regions(canvas) = <<>> => timers' = 0
             /\ drawPoints' = <<>>
       /\ te'.filename # te.filename => te'.timers = 0]_vars


\* a load or a detection asked for while file f was current completes
Completes(f) ==
    \/ imgPending'[f] < imgPending[f]
    \/ annPending'[f] < annPending[f]
    \/ detPending'[f] < detPending[f]

\* C16 as stated: a completion for a file that is no longer the current one
\* adds no region, resets neither the history nor the mode nor the zoom, and
\* schedules no save.
C16_Original ==
    [][\A f \in Files \ {filename} :
          Completes(f) =>
             /\ Geometry(canvas') = Geometry(canvas)
             /\ UNCHANGED <<undoStack, redoStack, currentMode, zoom, drawPoints>>
             /\ UNCHANGED <<timers, autoSaveTimer>>]_vars


\* C17 as stated: the annotation of the current file arriving while its image
\* is still loading adds no region to the canvas.
C17_Original ==
    [][/\ annPending'[filename] < annPending[filename]
       /\ imgPending[filename] > 0
       => Len(Regions(canvas')) <= Len(Regions(canvas))]_vars


\* C18: the zoom in effect when history.reset() last ran is the fit zoom the
\* load callback computed for its image, and every load callback leaves the
\* history baselined under the zoom it has just set.
C18_ResetAfterTransform ==
    /\ [](baselined => baseZoom = fitZoom)
    /\ [][\A f \in Files :
             (\E z \in ZoomSet : ImageLoadedFor(f, z)) =>
                 baselined' /\ baseZoom' = zoom' /\ zoom' = fitZoom']_vars

\* the second image has loaded at a fit zoom other than the one before
C18_Witness ==
    /\ baselined
    /\ filename = "b"
    /\ imgPending = NoLoads
    /\ fitZoom # Zoom1
    /\ baseZoom = fitZoom


\* the fields of the text page a failure must leave alone
TeKept(t) ==
    <<t.filename, t.regions, t.texts, t.currentRegionIndex, t.polys,
      t.autoSaveTimeout, t.timers, t.server>>

\* C19: a write of the region editor that fails leaves the canvas, the
\* history stacks, the mode, the filename and the timer as they were and
\* starts no other write; on the text page a saveData() that fails, in its
\* load or in its write, leaves the regions, the texts, the timer and the
\* file on the server as they were and starts no other attempt.
C19_FailedSaveKeepsState ==
    [][/\ (~te.open /\ SaveDone(FALSE) /\ UNCHANGED steps) =>
             /\ UNCHANGED <<canvas, undoStack, redoStack, currentMode,
                            filename, drawPoints, active>>
             /\ UNCHANGED <<timers, autoSaveTimer>>
             /\ writes' = Tail(writes)
       /\ TextWriteDone(FALSE) =>
             /\ TeKept(te') = TeKept(te)
             /\ te'.saveFetch = te.saveFetch
             /\ te'.writes = Tail(te.writes)
       /\ TextSaveLoaded(FALSE) =>
             /\ TeKept(te') = TeKept(te)
             /\ te'.writes = te.writes
             /\ Len(te'.saveFetch) = Len(te.saveFetch) - 1]_vars

\* a text was entered, its write failed, and the text is still there
C19_Witness ==
    /\ te.open
    /\ te.lastWrite = "failed"
    /\ te.saveStatus = "error"
    /\ te.timers = 0 /\ te.writes = <<>> /\ te.saveFetch = <<>>
    /\ \E i \in DOMAIN te.texts : te.texts[i] = "t"
    /\ te.server = ServerInit


\* c is Math.round of the coordinate h half pixels: h/2 - 1/2 <= c <= h/2 ...
\* that is floor(h/2 + 1/2)
Rounds(c, h) == c \in Int /\ 2 * c - 1 <= h /\ h <= 2 * c

\* regions sent for the objects objs: one per region, in their order, each
\* point the rounded position of the region's point on the canvas plane
Carries(sent, objs) ==
    LET regs == Regions(objs)
    IN /\ Len(sent) = Len(regs)
       /\ \A i \in 1..Len(regs) :
             /\ Len(sent[i]) = Len(regs[i].points)
             /\ \A k \in 1..Len(regs[i].points) : \A j \in 1..2 :
                   Rounds(sent[i][k][j],
                          2 * regs[i].points[k][j] + regs[i].offset[j])

\* C20: every write saveData() issues carries the regions on the canvas, one
\* per polygon without a class and in canvas order, helpers left out, every
\* coordinate the integer nearest to the region's position in image pixels,
\* whatever the zoom.
C20_PayloadIsRegions ==
    [][EditorSaves =>
          /\ writes' = Append(writes, Last(writes'))
          /\ Last(writes').filename = filename
          /\ Carries(Last(writes').regions, canvas)
          /\ canvas' = canvas]_vars

\* sent at half zoom with a drawing in progress: the region dragged by half a
\* pixel goes out rounded, the vertex marker does not go out
C20_Witness ==
    /\ ~te.open
    /\ zoom # Zoom1
    /\ Temps(canvas) # <<>>
    /\ \E i \in 1..Len(canvas) : IsRegion(canvas[i]) /\ canvas[i].offset = HalfPixel
    /\ writes # <<>>
    /\ Last(writes).regions = << <<<<1, 0>>, <<11, 0>>, <<11, 10>> >> >>


\* a and b are in the order the claim asks of a pair, a first
InOrder(a, b) ==
    IF Abs(TopOf(a) - TopOf(b)) < 10
    THEN LeftOf(a) <= LeftOf(b)
    ELSE TopOf(a) < TopOf(b)

IsPermutation(s, rs) == s \in Reorderings(rs)

\* the three regions of the claim's example, as stored and as sorted
ExampleStored == <<RegionAt(80, 100), RegionAt(10, 105), RegionAt(0, 50)>>
ExampleSorted == <<RegionAt(0, 50), RegionAt(10, 105), RegionAt(80, 100)>>

\* C21 as stated: the regions the text page holds after loadRegions() are a
\* permutation of the stored regions in which every pair is in order, the
\* smaller left edge first when the tops differ by less than 10, the smaller
\* top first otherwise; the example's regions come out in the example's order.
C21_Original ==
    (te.open /\ te.regions # <<>>) =>
        /\ IsPermutation(te.regions, te.server[te.filename].regions)
        /\ \A i, j \in 1..Len(te.regions) :
              i < j => InOrder(te.regions[i], te.regions[j])
        /\ te.server[te.filename].regions = ExampleStored
              => te.regions = ExampleSorted


\* the stored regions of the current file sort the same way every time
SortsAlike == Consistent(te.server[te.filename].regions)

\* C22 as stated: once the texts confirmed by the user have been saved and the
\* page has loaded the file again, every confirmed text is at the display
\* index it was confirmed at, whatever the storage order of the regions.
C22_Original ==
    (te.open /\ TeSettled(te) /\ SortsAlike) =>
        \A i \in DOMAIN te.assigned : TextAt(te.texts, i) = te.assigned[i]


\* the bound of the text panels' range nearest to z
TeNearest(z) ==
    IF LessFrac(TeZoomMax, z) THEN TeZoomMax
    ELSE IF LessFrac(z, TeZoomMin) THEN TeZoomMin ELSE z

\* the zoom a wheel event with deltaY over panel p asks for
Requested(p, deltaY) ==
    FracMul(te.viewportTransform[p].zoom, ZoomFactor(deltaY))

\* C23 as stated, for the text panels: the zoom of both panels lies within
\* [0.1, 10] after every step, the initial fit included, and a wheel event
\* that asks for a zoom outside the range leaves the panel at the nearest
\* bound of the range.
C23_Original ==
    [][/\ \A p \in Panels : ~OutOfRange(te'.viewportTransform[p].zoom)
       /\ \A p \in Panels, c \in Cursors, deltaY \in DeltaYs :
             (te' = TeWheel(te, p, c, deltaY) /\ OutOfRange(Requested(p, deltaY)))
                 => te'.viewportTransform[p].zoom = TeNearest(Requested(p, deltaY))]_vars


\* this step is one wheel event over a panel
WheelStep ==
    \E p \in Panels, c \in Cursors, deltaY \in DeltaYs : te' = TeWheel(te, p, c, deltaY)

\* this step is the button-up that ends a pan
PanEnd ==
    \E p \in te.afterRender : te.isRightClickPanning /\ te' = TeMouseUp(te, p)

\* C24 as stated: after every wheel-zoom step and after every button-up that
\* ends a pan, once the handlers of the event have run, the left and the
\* right panel have the same viewport transform.
C24_Original ==
    [][(WheelStep \/ PanEnd) =>
          te'.viewportTransform["left"] = te'.viewportTransform["right"]]_vars


\* image-space points, whole and fractional, inside and outside the image
ImagePoints ==
    {<<Whole(0), Whole(0)>>, <<Whole(10), Whole(40)>>, <<<<-7, 3>>, <<1, 2>> >>}

\* both inverse mappings take the viewport position of q back to q
RoundTrip(v) ==
    \A q \in ImagePoints :
        /\ OriginalCoords(v, ToViewport(v, q)) = q
        /\ PointUnder(v, ToViewport(v, q)) = q

\* C25: under every transform a panel takes, mapping an image point to the
\* viewport and back, with the inverse of the hit test and with the inverse
\* of the wheel anchor, returns the point; and after a wheel zoom that was
\* applied, the image point under the cursor is the one that was under it
\* before, and it maps to the cursor position.
C25_InverseIsExact ==
    [][/\ \A p \in Panels : RoundTrip(te'.viewportTransform[p])
       /\ \A p \in Panels, c \in Cursors, deltaY \in DeltaYs :
             (~OutOfRange(Requested(p, deltaY)) /\ te' = TeWheel(te, p, c, deltaY))
                 => /\ OriginalCoords(te'.viewportTransform[p], c)
                         = OriginalCoords(te.viewportTransform[p], c)
                    /\ ToViewport(te'.viewportTransform[p],
                                  OriginalCoords(te.viewportTransform[p], c)) = c]_vars

\* the left panel after the fit to an image 540 wide and one wheel step in
\* with the pointer at (100, 50): zoom 1.1, the translation moved from
\* (30, 20) to (23, 17)
C25_Witness ==
    /\ te.widths[te.filename] = 540
    /\ te.viewportTransform["left"] =
           [zoom |-> <<11, 10>>, tx |-> Whole(23), ty |-> Whole(17)]


\* C26 as stated: once a progress query has observed the completed state or
\* has ended in an error, polling has stopped: no timer is set for another
\* query and no query is under way.
C26_Original ==
    te.observed \in {"completed", "error"} =>
        te.pollTimers = 0 /\ te.pollFetch = 0



\* C27 as stated, for the text page: a navigation leaves the region list and
\* the texts empty and no autosave timer pending, and while the page is on
\* image "b" the text of image "a" is never shown in the modal nor sent in a
\* write for "b".
C27_Original ==
    [][/\ te'.filename # te.filename =>
             te'.regions = <<>> /\ te'.texts = NoTexts /\ te'.timers = 0
       /\ te'.filename = "b" =>
             /\ te'.currentRegionIndex # 0 =>
                    TextAt(te'.texts, te'.currentRegionIndex) # TextOfA
             /\ \A i \in 1..Len(te'.writes) :
                    te'.writes[i].filename = "b" =>
                        \A o \in DOMAIN te'.writes[i].texts :
                            te'.writes[i].texts[o] # TextOfA]_vars


\* the history, the lock, the canvas and what the change notification
\* touches stay as they are in this step
HistoryUntouched ==
    UNCHANGED <<undoStack, redoStack, locked, canvas, pending, owed, timers,
                autoSaveTimer, active, editPointsMode>>

\* C28: undo() with at most one entry on the undo stack, redo() with an
\* empty redo stack, and either of them while a restoration is in progress,
\* change neither stack, nor the lock, nor the objects on the canvas, and no
\* change notification is owed or delivered for them.
C28_RefusedUndoRedo ==
    [][/\ (Ed' = HistoryUndo(CaptureSelectionState(Ed))
             /\ (Len(undoStack) <= 1 \/ locked)) => HistoryUntouched
       /\ (Ed' = HistoryRedo(CaptureSelectionState(Ed))
             /\ (redoStack = <<>> \/ locked)) => HistoryUntouched]_vars

\* a restoration is in progress with entries on both stacks: undo and redo
\* are refused for the lock alone
C28_Witness ==
    /\ locked
    /\ Len(undoStack) >= 2
    /\ redoStack # <<>>


\* C29 as stated: while the mode is 'draw' nothing is selected and no region
\* on the canvas is selectable or evented.
C29_Original ==
    currentMode = "draw" =>
        /\ active = 0
        /\ \A i \in 1..Len(canvas) :
              IsRegion(canvas[i]) => ~canvas[i].selectable /\ ~canvas[i].evented


\* the snapshot holds region polygons only
RegionsOnly(snap) ==
    \A k \in 1..Len(snap) : snap[k].type = "polygon" /\ snap[k].class = ""

\* C30 as stated: every snapshot on the undo stack and on the redo stack
\* holds region polygons only, and the objects a restoration is about to put
\* on the canvas are region polygons only.
C30_Original ==
    /\ \A i \in 1..Len(undoStack) : RegionsOnly(undoStack[i])
    /\ \A i \in 1..Len(redoStack) : RegionsOnly(redoStack[i])
    /\ RegionsOnly(pending)


\* a write has just been handed to the network
WriteSent == Len(te'.writes) > Len(te.writes)

\* C31: no step of the text page changes the regions on file of any image,
\* neither their points nor their order, and the regions a save sends are
\* the regions on file of the image the write names, in the order on file
C31_Original ==
    [][/\ \A f \in Files : te'.server[f].regions = te.server[f].regions
       /\ WriteSent =>
             Last(te'.writes).regions =
                 te.server[Last(te'.writes).filename].regions]_vars


\* the points of the regions on the canvas, in canvas order
RegionPoints(objs) == [i \in 1..Len(Regions(objs)) |-> Regions(objs)[i].points]

\* C32: a detection run that succeeds leaves as regions exactly the detected
\* regions of 3 points or more, in the order returned, whatever regions were
\* there before; a run that fails leaves the canvas, both history stacks and
\* the autosave timer as they were
C32_DetectionRun ==
    [][\A regs \in Detections :
          DetectDone(regs) =>
             IF regs = "error"
             THEN UNCHANGED <<canvas, undoStack, redoStack, autoSaveTimer,
                              timers>>
             ELSE RegionPoints(canvas') =
                     SelectSeq(regs, LAMBDA r : Len(r) >= 3)]_vars

\* a region loaded from storage was on the canvas, and a detection run has
\* left the two detected regions of three points in its place
C32_Witness ==
    /\ RegionPoints(canvas) = <<Stored, Triangle>>
    /\ \E k \in 1..(Len(undoStack) - 1) :
          Regions(undoStack[k]) # <<>> /\ Regions(undoStack[k + 1]) = <<>>
    /\ detPending = NoLoads
    /\ timers > 0


\* image loads and annotation loads still in flight
LoadsInFlight == Total(imgPending) + Total(annPending)

\* the last load in flight has just completed
LoadingDone == LoadsInFlight > 0 /\ LoadsInFlight' = 0

\* C33: when the image and its stored annotation have both arrived, in
\* either order, undoStack holds exactly one snapshot, that of the canvas
\* with every loaded region, and redoStack is empty
C33_Original ==
    [][LoadingDone =>
          /\ undoStack' = <<Snapshot(canvas')>>
          /\ redoStack' = <<>>]_vars


\* the region editor has just handed a write to the network
EditorWriteSent == Len(writes') > Len(writes)

\* the texts on file of image f
TextsOnFile(f) == {te.server[f].texts[o] : o \in DOMAIN te.server[f].texts}

\* C34: a write of the region editor names the current image and is sent
\* only when that image's annotation has arrived, never from the cleared or
\* half-loaded canvas; a write of the text page carries the regions on
\* file of the image it names and, as long as the user has typed nothing,
\* no text but those on file of that image
C34_Original ==
    [][/\ EditorWriteSent =>
             /\ Last(writes').filename = filename
             /\ annPending[filename] = 0
       /\ WriteSent =>
             LET w == Last(te'.writes)
             IN /\ w.regions = te.server[w.filename].regions
                /\ te.assigned = NoTexts =>
                      \A o \in DOMAIN w.texts :
                         w.texts[o] \in TextsOnFile(w.filename) \cup {""}]_vars


\* C35: at no time is more than one write in flight, neither from the
\* region editor nor from the text page
C35_Original == Len(writes) <= 1 /\ Len(te.writes) <= 1


\* C36: whenever no restoration is in progress, the snapshot on top of
\* undoStack holds the regions on the canvas, the same points at the same
\* place in the same order, and regions are on the canvas only when
\* undoStack holds a snapshot
C36_Original ==
    ~locked =>
       IF undoStack = <<>> THEN Regions(canvas) = <<>>
       ELSE Geometry(Last(undoStack)) = Geometry(canvas)


\* C37: while the mode is 'edit' every region on the canvas is selectable
\* and evented
C37_Original ==
    currentMode = "edit" =>
       \A i \in 1..Len(canvas) :
          IsRegion(canvas[i]) => canvas[i].selectable /\ canvas[i].evented


\* no two entries of the display list rs map to the same index of orig
MapsApart(rs, orig) ==
    \A j, k \in 1..Len(rs) :
       (j # k /\ OriginalIndex(rs[j], orig) # 0)
          => OriginalIndex(rs[j], orig) # OriginalIndex(rs[k], orig)

\* C38: the regions shown map to different indices on file, also when two
\* of them have the same points, and a save sends the text of every region
\* shown under that region's index on file
C38_Original ==
    [][/\ MapsApart(te'.regions, te'.server[te'.filename].regions)
       /\ WriteSent =>
             LET w == Last(te'.writes)
             IN \A k \in 1..Len(te.regions) :
                   LET o == OriginalIndex(te.regions[k], w.regions)
                   IN o # 0 => TextAt(w.texts, o) = TextAt(te.texts, k)]_vars


\* C39: on the regions on file the comparator is a strict weak ordering
\* ("before" and "same row" are transitive), and sorting any permutation of
\* them has one outcome, the same for all
C39_Original ==
    LET rs == te.server[te.filename].regions
    IN /\ Consistent(rs)
       /\ \A ps \in Reorderings(rs) :
             SortOutcomes(ps) = {SortRegionsTopToBottom(rs)}


\* C40: every step that changes the list of regions or their order and
\* pushes a snapshot leaves an autosave timer pending
C40_Original ==
    [][(RegionPoints(canvas') # RegionPoints(canvas) /\ undoStack' # undoStack)
          => timers' > 0]_vars

====
